---------------------------- MODULE Spec2Model ----------------------------
(***************************************************************************)
(* A model of the cortexd daemon's concurrent control and persistence      *)
(* plane: the lock-free RateLimiter and the IPCServer (ipc/server.cpp),    *)
(* the AlertStore (alerts/alert_store.cpp) and the AlertManager declared   *)
(* in alerts/alert_manager.h.                                              *)
(*                                                                         *)
(* The specifications share the module's variables; each one moves its own *)
(* group of variables and leaves the others alone:                         *)
(*   SpecRL   N threads inside RateLimiter::allow(), one atomic access per *)
(*            step;                                                        *)
(*   SpecIPC  IPCServer start/stop, the accept thread and handle_client;   *)
(*   SpecReg  the handler registry under its shared_mutex;                 *)
(*   Spec     the AlertManager operations over the AlertStore table;       *)
(*   SpecAck, SpecStore   the alert handlers and the store alone;          *)
(*   SpecMon, SpecApt, SpecLoop, SpecSmart, SpecLlm, SpecLife              *)
(*            the SystemMonitor: its passes, its worker loop, its analysis *)
(*            threads, its LLM state and the manager's lifetime.           *)
(***************************************************************************)
EXTENDS Integers, Sequences, FiniteSets, TLC

(***************************************************************************)
(* Bounds of the model                                                     *)
(***************************************************************************)
\* threads calling RateLimiter::allow()
NumThreads == 2
\* allow() calls made in all (the admission history is kept for these)
MaxCalls == 3
\* the steady clock stops advancing here (milliseconds)
MaxTimeMs == 1500
\* the steady clock advances in steps of this many milliseconds
TickMs == 500
\* connections the clients open in all
MaxConns == 3
\* connections waiting in the listening socket's queue
MaxBacklog == 1
\* the wall clock stops advancing here (minutes)
MaxWallNow == 11
\* one step of the wall clock (minutes)
WallTick == 5
\* the resolution of the wall clock: ticks of a TimePoint in one second
TicksPerSecond == 2
\* sample passes the monitor's worker loop starts
MaxPasses == 2
\* health requests the handler thread serves
MaxHealth == 1
\* dispatch() calls the accept thread makes
MaxDispatches == 3
\* register_handler() calls the main thread makes
MaxRegisters == 2
\* sample passes that find the disk above its critical threshold
MaxSmartPasses == 2
\* set_llm_state() calls the handlers make
MaxSets == 2
\* sample passes that run against set_llm_state()
MaxLlmPasses == 2
\* sample passes that start an analysis thread before the daemon shuts down
MaxLifePasses == 4

(***************************************************************************)
(* Program constants                                                       *)
(***************************************************************************)
\* "if (elapsed.count() >= 1000)": the length of the rate limiter's window
WindowMs == 1000
\* RateLimiter::RateLimiter(int max_per_second)
max_per_second_ == 2
\* sizeof(addr.sun_path), the bound create_socket() checks the path against
SunPathSize == 108
\* std::chrono::minutes dedup_window_{5}
DedupWindow == 5
\* std::chrono::hours counted in the wall clock's minutes
MinutesPerHour == 60
\* TimePoint{}: the default time point, the epoch
Epoch == 0
\* the empty string create() returns for no alert
NoId == ""

VARIABLES
    \* ---- RateLimiter (server.cpp 18-88) ----
    steady_now,          \* std::chrono::steady_clock::now(), in milliseconds
    count_,              \* std::atomic<int> count_
    window_start_rep_,   \* std::atomic<rep> window_start_rep_
    rl_pc,               \* per thread: where it is inside allow()
    now_rep,             \* per thread: local now_rep
    window_start_loc,    \* per thread: local window_start_rep
    current,             \* per thread: local current
    rl_calls,            \* allow() calls started, over all threads
    rl_result,           \* per thread: what its last allow() returned
    admits,              \* history: <<start, end>> |-> the admitted calls that
                         \* read the clock at start and returned at end
    windows,             \* history: every value window_start_rep_ has held
    \* ---- IPCServer (server.cpp 90-386) ----
    socket_path_len,     \* socket_path_.size()
    running_,            \* std::atomic<bool> running_
    server_fd_,          \* the listening descriptor, -1 when there is none
    sock_file,           \* whether a socket file exists at socket_path_
    sock_shut,           \* whether shutdown(server_fd_, SHUT_RDWR) was called
    backlog,             \* connections the kernel holds for accept()
    handlers_,           \* the methods of the handler registry
    active_connections_, \* std::atomic<int> active_connections_
    connections_served_, \* connections handle_client has taken
    acc_pc,              \* the accept thread: where it is
    cur,                 \* the connection handle_client is working on
    main_pc,             \* the thread that calls start() and stop()
    stop_inflight,       \* history: stop() began while a request was in flight
    \* ---- AlertManager (alert_manager.h) and AlertStore (alert_store.cpp) ----
    wall_now,            \* Clock::now(), the wall clock, in ticks
    rows,                \* the rows of the alerts table
    recent_alerts_,      \* dedup key |-> when it was admitted
    callbacks_,          \* the registered callbacks, in order
    issued,              \* key |-> when and with which ID it was last admitted
    last,                \* history: the last manager call and its result
    \* ---- AlertStore alone: one insert(alert) followed by get(alert.id) ----
    rt_alert,            \* the Alert handed to insert()
    rt_rows,             \* the rows of the table
    rt_got,              \* what get() returned
    rt_pc,               \* "input", "inserted", "got"; "idle" when unused
    \* ---- SystemMonitor, the health handler and the analysis threads ----
    current_snapshot_,   \* the published HealthSnapshot
    snapshot_mutex_,     \* "none", or the thread holding the mutex
    mon_clock,           \* Clock::now()
    llm_loaded_,         \* the monitor's mirror of the engine state
    llm_is_loaded,       \* llm_engine_->is_loaded()
    infer_result,        \* what infer_sync() returns: "success", "failure"
    mon_pc,              \* thread |-> where it is
    sample,              \* thread |-> the statistics its pass collected
    passes_left,         \* passes the worker loop will still start
    health_left,         \* health requests still to come
    health,              \* the health handler's locals and its response
    mgr_alerts,          \* the alerts the manager holds
    tasks,               \* the detached analysis threads that have not run
    published,           \* history: every snapshot published
    checked,             \* history: thread |-> what its pass read and requested
    \* ---- SystemMonitor: configuration, package counter, monitor_loop ----
    enable_ai_alerts,    \* config.enable_ai_alerts
    enable_apt_monitor,  \* config.enable_apt_monitor
    readings,            \* the statistics the machine shows while it runs
    apt_counter_,        \* the atomic counter of the passes
    apt_log,             \* history: the counter values the passes took, and
                         \* whether check_updates() ran for them
    mon_running_,        \* std::atomic<bool> running_ of the monitor
    check_requested_,    \* std::atomic<bool> check_requested_
    loop_now,            \* std::chrono::steady_clock::now(), in seconds
    last_check,          \* monitor_loop's local last_check
    now_loc,             \* monitor_loop's local now
    trig_clock,          \* history: mon_clock at the last trigger_check()
    \* ---- IPCServer: the handler registry, dispatch(), register_handler() ----
    handler_of,          \* handlers_[method]: the handler a method maps to
    handlers_mutex_,     \* the shared_mutex: its shared and exclusive holders
    dsp_pc,              \* the accept thread: where it is inside dispatch()
    dsp_req,             \* request.method of the request being dispatched
    handler_loc,         \* dispatch()'s local handler
    dispatches_left,     \* dispatch() calls still to come
    reg_pc,              \* the main thread: where it is in register_handler()
    reg_arg,             \* the main thread's <<method, handler>>
    registers_left,      \* register_handler() calls of the main thread to come
    registered,          \* history: method |-> the handler of the last
                         \* register_handler() call that returned
    invoked_log,         \* history: the <<method, handler>> invoked, in order
    \* ---- SystemMonitor: set_llm_state() against a sample pass ----
    llm_queue_size_,     \* std::atomic<size_t> llm_queue_size_
    llm_model_name_,     \* std::string llm_model_name_, guarded by llm_mutex_
    llm_mutex_,          \* "none", or the thread holding the mutex
    set_pc,              \* the handler thread: where it is in set_llm_state()
    set_arg,             \* the arguments of the set_llm_state() call under way
    sets_left,           \* set_llm_state() calls still to come
    pass_pc,             \* the worker: where it is in the locked block
    snap_llm,            \* the three LLM fields of current_snapshot_
    llm_passes_left,     \* sample passes still to come
    llm_calls,           \* history: the arguments of every set_llm_state()
    llm_published,       \* history: the LLM fields of every published snapshot
    \* ---- the AlertManager's lifetime ----
    mgr_holders,         \* who holds a shared_ptr<AlertManager>
    mgr_destroyed,       \* ~AlertManager has run
    life_passes_left,    \* passes that start an analysis thread, to come
    life_tasks,          \* detached threads that have not called create() yet
    life_created,        \* create() calls the threads made on the live manager
    dangling_use         \* history: what the create() calls made through the
                         \* pointer to the destroyed manager did

rlvars == <<steady_now, count_, window_start_rep_, rl_pc, now_rep,
            window_start_loc, current, rl_calls, rl_result, admits, windows>>

\* the rate limiter's variables that only the threads of SpecRL use
rllocals == <<rl_pc, now_rep, window_start_loc, current, rl_calls, rl_result,
              admits, windows>>

ipcvars == <<socket_path_len, running_, server_fd_, sock_file, sock_shut,
             backlog, handlers_, active_connections_, connections_served_,
             acc_pc, cur, main_pc, stop_inflight>>

amvars == <<wall_now, rows, recent_alerts_, callbacks_, issued, last>>

rtvars == <<rt_alert, rt_rows, rt_got, rt_pc>>

monvars == <<current_snapshot_, snapshot_mutex_, mon_clock, llm_loaded_,
             llm_is_loaded, infer_result, mon_pc, sample, passes_left,
             health_left, health, mgr_alerts, tasks, published, checked>>

cfgvars == <<enable_ai_alerts, enable_apt_monitor, readings>>

aptvars == <<apt_counter_, apt_log>>

loopvars == <<mon_running_, check_requested_, loop_now, last_check, now_loc,
              trig_clock>>

regvars == <<handler_of, handlers_mutex_, dsp_pc, dsp_req, handler_loc,
             dispatches_left, reg_pc, reg_arg, registers_left, registered,
             invoked_log>>

llmvars == <<llm_queue_size_, llm_model_name_, llm_mutex_, set_pc, set_arg,
             sets_left, pass_pc, snap_llm, llm_passes_left, llm_calls,
             llm_published>>

lifevars == <<mgr_holders, mgr_destroyed, life_passes_left, life_tasks,
              life_created, dangling_use>>

vars == <<rlvars, ipcvars, amvars, rtvars, monvars, cfgvars, aptvars, loopvars,
          regvars, llmvars, lifevars>>

\* what the steps of one component leave alone
notRL == <<ipcvars, amvars, rtvars, monvars, cfgvars, aptvars, loopvars,
           regvars, llmvars, lifevars>>
notIPC == <<amvars, rtvars, monvars, cfgvars, aptvars, loopvars,
            regvars, llmvars, lifevars>>
notAM == <<rlvars, ipcvars, rtvars, monvars, cfgvars, aptvars, loopvars,
           regvars, llmvars, lifevars>>
notRT == <<rlvars, ipcvars, amvars, monvars, cfgvars, aptvars, loopvars,
           regvars, llmvars, lifevars>>
notMon == <<rlvars, ipcvars, amvars, rtvars, cfgvars, aptvars, loopvars,
            regvars, llmvars, lifevars>>
\* what a step of run_checks() that takes the package counter leaves alone
notMonApt == <<rlvars, ipcvars, amvars, rtvars, cfgvars, loopvars,
               regvars, llmvars, lifevars>>
\* what a step of monitor_loop() around its passes leaves alone
notLoop == <<rlvars, ipcvars, amvars, rtvars, cfgvars, aptvars,
             regvars, llmvars, lifevars>>

Threads == 1..NumThreads

(***************************************************************************)
(* RateLimiter                                                             *)
(***************************************************************************)
\* RateLimiter::RateLimiter: window_start_rep_ <- now, count_ <- 0
RLInit ==
    /\ steady_now = 0
    /\ count_ = 0
    /\ window_start_rep_ = 0
    /\ rl_pc = [t \in Threads |-> "idle"]
    /\ now_rep = [t \in Threads |-> 0]
    /\ window_start_loc = [t \in Threads |-> 0]
    /\ current = [t \in Threads |-> 0]
    /\ rl_calls = 0
    /\ rl_result = [t \in Threads |-> "none"]
    /\ admits = <<>>
    /\ windows = {0}

\* the steady clock moves on between any two steps
RLTick ==
    /\ steady_now + TickMs <= MaxTimeMs
    /\ steady_now' = steady_now + TickMs
    /\ UNCHANGED <<count_, window_start_rep_, rl_pc, now_rep, window_start_loc,
                   current, rl_calls, rl_result, admits, windows>>
    /\ UNCHANGED notRL

\* elapsed = duration_cast<milliseconds>(now - window_start)
Elapsed(now, ws) == now - ws

\* history: one more admitted call with this <<start, end>>
Record(h, p) ==
    IF p \in DOMAIN h THEN [h EXCEPT ![p] = @ + 1] ELSE h @@ (p :> 1)

\* allow(), lines 28-29: now = steady_clock::now()
AllowReadClock(t) ==
    /\ rl_pc[t] = "idle"
    /\ rl_calls < MaxCalls
    /\ rl_calls' = rl_calls + 1
    /\ now_rep' = [now_rep EXCEPT ![t] = steady_now]
    /\ rl_pc' = [rl_pc EXCEPT ![t] = "clock_read"]
    /\ rl_result' = [rl_result EXCEPT ![t] = "none"]
    /\ UNCHANGED <<steady_now, count_, window_start_rep_, window_start_loc,
                   current, admits, windows>>
    /\ UNCHANGED notRL

\* allow(), lines 30-39: window_start_rep = window_start_rep_.load(); the
\* elapsed test decides whether the call tries to reset the window
AllowLoadWindow(t) ==
    /\ rl_pc[t] = "clock_read"
    /\ window_start_loc' = [window_start_loc EXCEPT ![t] = window_start_rep_]
    /\ rl_pc' = [rl_pc EXCEPT ![t] =
                   IF Elapsed(now_rep[t], window_start_rep_) >= WindowMs
                   THEN "reset_cas" ELSE "loop"]
    /\ UNCHANGED <<steady_now, count_, window_start_rep_, now_rep, current,
                   rl_calls, rl_result, admits, windows>>
    /\ UNCHANGED notRL

\* allow(), lines 41-45: window_start_rep_.compare_exchange_weak(expected,
\* now_rep); the weak form may also fail when the values are equal
AllowResetCas(t) ==
    /\ rl_pc[t] = "reset_cas"
    /\ \/ /\ window_start_rep_ = window_start_loc[t]
          /\ window_start_rep_' = now_rep[t]
          /\ windows' = windows \cup {now_rep[t]}
          /\ rl_pc' = [rl_pc EXCEPT ![t] = "reset_store"]
       \/ /\ UNCHANGED <<window_start_rep_, windows>>
          /\ rl_pc' = [rl_pc EXCEPT ![t] = "reset_lost"]
    /\ UNCHANGED <<steady_now, count_, now_rep, window_start_loc, current,
                   rl_calls, rl_result, admits>>
    /\ UNCHANGED notRL

\* allow(), line 47: the winner's count_.store(0)
AllowResetStore(t) ==
    /\ rl_pc[t] = "reset_store"
    /\ count_' = 0
    /\ rl_pc' = [rl_pc EXCEPT ![t] = "loop"]
    /\ UNCHANGED <<steady_now, window_start_rep_, now_rep, window_start_loc,
                   current, rl_calls, rl_result, admits, windows>>
    /\ UNCHANGED notRL

\* allow(), lines 50-55: the loser reloads window_start_rep_
AllowResetLost(t) ==
    /\ rl_pc[t] = "reset_lost"
    /\ window_start_loc' = [window_start_loc EXCEPT ![t] = window_start_rep_]
    /\ rl_pc' = [rl_pc EXCEPT ![t] = "loop"]
    /\ UNCHANGED <<steady_now, count_, window_start_rep_, now_rep, current,
                   rl_calls, rl_result, admits, windows>>
    /\ UNCHANGED notRL

\* allow() without the test of line 69: the loop always goes on to the CAS
LoadCountUnchecked(t) ==
    /\ rl_pc[t] = "loop"
    /\ current' = [current EXCEPT ![t] = count_]
    /\ rl_pc' = [rl_pc EXCEPT ![t] = "count_cas"]
    /\ UNCHANGED <<steady_now, count_, window_start_rep_, now_rep,
                   window_start_loc, rl_calls, rl_result, admits, windows>>
    /\ UNCHANGED notRL

\* allow(), lines 65-72: current = count_.load(); at the limit, return false
AllowLoadCount(t) ==
    /\ rl_pc[t] = "loop"
    /\ current' = [current EXCEPT ![t] = count_]
    /\ IF count_ >= max_per_second_
       THEN /\ rl_pc' = [rl_pc EXCEPT ![t] = "idle"]
            /\ rl_result' = [rl_result EXCEPT ![t] = FALSE]
       ELSE /\ rl_pc' = [rl_pc EXCEPT ![t] = "count_cas"]
            /\ UNCHANGED rl_result
    /\ UNCHANGED <<steady_now, count_, window_start_rep_, now_rep,
                   window_start_loc, rl_calls, admits, windows>>
    /\ UNCHANGED notRL

\* allow(), lines 74-80: count_.compare_exchange_weak(current, next); success
\* returns true, failure (a changed count_, or a spurious one) loops
AllowCountCas(t) ==
    /\ rl_pc[t] = "count_cas"
    /\ \/ /\ count_ = current[t]
          /\ count_' = current[t] + 1
          /\ rl_pc' = [rl_pc EXCEPT ![t] = "idle"]
          /\ rl_result' = [rl_result EXCEPT ![t] = TRUE]
          /\ admits' = Record(admits, <<now_rep[t], steady_now>>)
       \/ /\ rl_pc' = [rl_pc EXCEPT ![t] = "loop"]
          /\ UNCHANGED <<count_, rl_result, admits>>
    /\ UNCHANGED <<steady_now, window_start_rep_, now_rep, window_start_loc,
                   current, rl_calls, windows>>
    /\ UNCHANGED notRL

RLNext ==
    \/ RLTick
    \/ \E t \in Threads : AllowReadClock(t)
    \/ \E t \in Threads : AllowLoadWindow(t)
    \/ \E t \in Threads : AllowResetCas(t)
    \/ \E t \in Threads : AllowResetStore(t)
    \/ \E t \in Threads : AllowResetLost(t)
    \/ \E t \in Threads : AllowLoadCount(t)
    \/ \E t \in Threads : AllowCountCas(t)

(***************************************************************************)
(* IPCServer                                                               *)
(***************************************************************************)
\* the methods a handler is registered for: the handler of "ping" returns a
\* response, the handler of "boom" throws a std::exception
Methods == {"ping", "boom"}

\* what a client sends: nothing, bytes Request::parse rejects, or a request
\* naming a method
Requests == {"empty", "garbage", "ping", "boom", "nosuch"}

\* the id member of the request a client sends: the requests that parse
\* carry one, bytes that are no request carry none
RequestId(r) == IF r \in {"ping", "boom", "nosuch"} THEN "req-1" ELSE NoId

\* e.what() of the exception the handler of "boom" throws
What == "handler failed"

\* resp, text and resp_id are the code, the error message and the id of the
\* Response object the connection is answered with
NoConn == [req |-> "none", id |-> NoId, denied |-> FALSE, parsed |-> FALSE,
           invoked |-> FALSE, resp |-> "none", text |-> <<>>,
           resp_id |-> NoId, sends |-> 0, closed |-> FALSE]

NewConn(r) == [NoConn EXCEPT !.req = r, !.id = RequestId(r)]

\* Response::err(message, code) and Response::ok(data): the factories are
\* given no request, the response they build names none
ResponseErr(c, message, code) ==
    [c EXCEPT !.resp = code, !.text = message, !.resp_id = NoId]

ResponseOk(c) == [c EXCEPT !.resp = "OK", !.text = <<>>, !.resp_id = NoId]

\* the pcs of the accept thread inside handle_client
HandlingPcs == {"enter", "recv", "limit", "parse", "dispatch", "handler",
                "send", "close"}

\* the calling thread is between two calls of start() and stop()
BetweenCalls == main_pc \in {"new", "start_ok", "start_failed", "stopped"}

\* IPCServer::IPCServer: nothing is bound, no thread runs
IPCInit ==
    /\ socket_path_len \in {SunPathSize - 1, SunPathSize}
    /\ running_ = FALSE
    /\ server_fd_ = -1
    /\ sock_file \in BOOLEAN
    /\ sock_shut = FALSE
    /\ backlog = <<>>
    /\ handlers_ = {}
    /\ active_connections_ = 0
    /\ connections_served_ = 0
    /\ acc_pc = "none"
    /\ cur = NoConn
    /\ main_pc = "new"
    /\ stop_inflight = FALSE

\* a server that was constructed with a path that fits and never started
IPCIdle ==
    /\ socket_path_len = SunPathSize - 1
    /\ running_ = FALSE
    /\ server_fd_ = -1
    /\ sock_file = FALSE
    /\ sock_shut = FALSE
    /\ backlog = <<>>
    /\ handlers_ = {}
    /\ active_connections_ = 0
    /\ connections_served_ = 0
    /\ acc_pc = "none"
    /\ cur = NoConn
    /\ main_pc = "new"
    /\ stop_inflight = FALSE

\* create_socket() without the length test of line 193
AnyPathFits(len) == len >= 0

\* create_socket(), line 193: the path fits sun_path with its terminator
PathFits(len) == ~(len > SunPathSize - 1)

\* start() with create_socket() and setup_permissions(): the stale file is
\* removed, an over-long path closes the descriptor and fails; otherwise the
\* socket is bound and listening and the accept thread is spawned
Start ==
    /\ BetweenCalls
    /\ IF running_
       THEN /\ main_pc' = "start_ok"
            /\ UNCHANGED <<running_, server_fd_, sock_file, sock_shut, backlog,
                           acc_pc>>
       ELSE IF PathFits(socket_path_len)
       THEN /\ server_fd_' = 3
            /\ sock_file' = TRUE
            /\ sock_shut' = FALSE
            /\ backlog' = <<>>
            /\ running_' = TRUE
            /\ acc_pc' = "top"
            /\ main_pc' = "start_ok"
       ELSE /\ server_fd_' = -1
            /\ sock_file' = FALSE
            /\ main_pc' = "start_failed"
            /\ UNCHANGED <<running_, sock_shut, backlog, acc_pc>>
    /\ UNCHANGED <<socket_path_len, handlers_, active_connections_,
                   connections_served_, cur, stop_inflight>>
    /\ UNCHANGED <<rlvars, notIPC>>

\* register_handler(): handlers_[method] = handler, under the exclusive lock
RegisterHandler(m) ==
    /\ m \notin handlers_
    /\ handlers_' = handlers_ \cup {m}
    /\ UNCHANGED <<socket_path_len, running_, server_fd_, sock_file, sock_shut,
                   backlog, active_connections_, connections_served_, acc_pc,
                   cur, main_pc, stop_inflight>>
    /\ UNCHANGED <<rlvars, notIPC>>

\* a client connects to the listening socket and sends its request
ClientConnect(r) ==
    /\ server_fd_ # -1
    /\ ~sock_shut
    /\ Len(backlog) < MaxBacklog
    /\ connections_served_ + Len(backlog) < MaxConns
    /\ backlog' = Append(backlog, r)
    /\ UNCHANGED <<socket_path_len, running_, server_fd_, sock_file, sock_shut,
                   handlers_, active_connections_, connections_served_, acc_pc,
                   cur, main_pc, stop_inflight>>
    /\ UNCHANGED <<rlvars, notIPC>>

\* accept_loop(), lines 248-259: while (running_), read server_fd_
AcceptLoopTop ==
    /\ acc_pc = "top"
    /\ acc_pc' = IF ~running_ THEN "exited"
                 ELSE IF server_fd_ = -1 THEN "top" ELSE "accept"
    /\ UNCHANGED <<socket_path_len, running_, server_fd_, sock_file, sock_shut,
                   backlog, handlers_, active_connections_,
                   connections_served_, cur, main_pc, stop_inflight>>
    /\ UNCHANGED <<rlvars, notIPC>>

\* accept_loop(), lines 261-278: accept() hands over a waiting connection
AcceptClient ==
    /\ acc_pc = "accept"
    /\ backlog # <<>>
    /\ cur' = NewConn(Head(backlog))
    /\ backlog' = Tail(backlog)
    /\ acc_pc' = "enter"
    /\ UNCHANGED <<socket_path_len, running_, server_fd_, sock_file, sock_shut,
                   handlers_, active_connections_, connections_served_,
                   main_pc, stop_inflight>>
    /\ UNCHANGED <<rlvars, notIPC>>

\* accept_loop(), lines 263-268: accept() on the shut-down socket returns -1
AcceptFails ==
    /\ acc_pc = "accept"
    /\ sock_shut
    /\ acc_pc' = "top"
    /\ UNCHANGED <<socket_path_len, running_, server_fd_, sock_file, sock_shut,
                   backlog, handlers_, active_connections_,
                   connections_served_, cur, main_pc, stop_inflight>>
    /\ UNCHANGED <<rlvars, notIPC>>

\* handle_client(), lines 285-289: active_connections_++, connections_served_++
HandleEnter ==
    /\ acc_pc = "enter"
    /\ active_connections_' = active_connections_ + 1
    /\ connections_served_' = connections_served_ + 1
    /\ acc_pc' = "recv"
    /\ UNCHANGED <<socket_path_len, running_, server_fd_, sock_file, sock_shut,
                   backlog, handlers_, cur, main_pc, stop_inflight>>
    /\ UNCHANGED <<rlvars, notIPC>>

\* a handle_client() that asks the rate limiter before it looks at what
\* recv() returned
EmptyReadRateLimited ==
    /\ acc_pc = "recv"
    /\ acc_pc' = "limit"
    /\ UNCHANGED <<socket_path_len, running_, server_fd_, sock_file, sock_shut,
                   backlog, handlers_, active_connections_,
                   connections_served_, cur, main_pc, stop_inflight>>
    /\ UNCHANGED <<rlvars, notIPC>>

\* a handle_client() whose return after an empty read leaves the counter as
\* it is
EmptyReadKeepsCount ==
    /\ acc_pc = "recv"
    /\ IF cur.req = "empty"
       THEN /\ cur' = [cur EXCEPT !.closed = TRUE]
            /\ acc_pc' = "top"
       ELSE /\ acc_pc' = "limit"
            /\ UNCHANGED cur
    /\ UNCHANGED <<socket_path_len, running_, server_fd_, sock_file, sock_shut,
                   backlog, handlers_, active_connections_,
                   connections_served_, main_pc, stop_inflight>>
    /\ UNCHANGED <<rlvars, notIPC>>

\* handle_client(), lines 295-306: recv(); without data close, decrement,
\* notify and return
HandleRecv ==
    /\ acc_pc = "recv"
    /\ IF cur.req = "empty"
       THEN /\ cur' = [cur EXCEPT !.closed = TRUE]
            /\ active_connections_' = active_connections_ - 1
            /\ acc_pc' = "top"
       ELSE /\ acc_pc' = "limit"
            /\ UNCHANGED <<cur, active_connections_>>
    /\ UNCHANGED <<socket_path_len, running_, server_fd_, sock_file, sock_shut,
                   backlog, handlers_, connections_served_, main_pc,
                   stop_inflight>>
    /\ UNCHANGED <<rlvars, notIPC>>

\* RateLimiter::allow() run by one thread alone (lines 27-81): cas_ok tells
\* whether the weak compare-exchange on window_start_rep_ succeeds
AllowSeq(now, ws, c, cas_ok) ==
    LET reset == Elapsed(now, ws) >= WindowMs /\ cas_ok
        c1 == IF reset THEN 0 ELSE c
    IN  [ok |-> c1 < max_per_second_,
         ws |-> IF reset THEN now ELSE ws,
         count |-> IF c1 < max_per_second_ THEN c1 + 1 ELSE c1]

\* a denial that sends RATE_LIMITED and then goes on to parse the request
DeniedFallsThrough(c) ==
    [pc |-> "parse",
     conn |-> [ResponseErr(c, <<"Rate limit exceeded">>, "RATE_LIMITED")
                  EXCEPT !.denied = TRUE, !.sends = @ + 1]]

\* handle_client(), lines 313-325: on denial send RATE_LIMITED, close,
\* decrement, notify and return
Denied(c) ==
    [pc |-> "top",
     conn |-> [ResponseErr(c, <<"Rate limit exceeded">>, "RATE_LIMITED")
                  EXCEPT !.denied = TRUE, !.sends = @ + 1, !.closed = TRUE]]

\* handle_client(), line 313: if (!rate_limiter_.allow())
HandleRateLimit ==
    /\ acc_pc = "limit"
    /\ \E cas_ok \in BOOLEAN :
         LET a == AllowSeq(steady_now, window_start_rep_, count_, cas_ok)
             out == IF a.ok THEN [pc |-> "parse", conn |-> cur] ELSE Denied(cur)
         IN  /\ count_' = a.count
             /\ window_start_rep_' = a.ws
             /\ acc_pc' = out.pc
             /\ cur' = out.conn
             /\ active_connections_' =
                    IF out.conn.closed THEN active_connections_ - 1
                    ELSE active_connections_
    /\ UNCHANGED <<socket_path_len, running_, server_fd_, sock_file, sock_shut,
                   backlog, handlers_, connections_served_, main_pc,
                   stop_inflight>>
    /\ UNCHANGED <<steady_now, rllocals, notIPC>>

\* a handle_client() that closes a connection whose request does not parse
\* without answering it
ParseErrorNotAnswered ==
    /\ acc_pc = "parse"
    /\ IF cur.req = "garbage"
       THEN /\ cur' = ResponseErr(cur, <<"Invalid request format">>,
                                  "PARSE_ERROR")
            /\ acc_pc' = "close"
       ELSE /\ cur' = [cur EXCEPT !.parsed = TRUE]
            /\ acc_pc' = "dispatch"
    /\ UNCHANGED <<socket_path_len, running_, server_fd_, sock_file, sock_shut,
                   backlog, handlers_, active_connections_,
                   connections_served_, main_pc, stop_inflight>>
    /\ UNCHANGED <<rlvars, notIPC>>

\* handle_client(), lines 328-335: Request::parse; no request gives PARSE_ERROR
HandleParse ==
    /\ acc_pc = "parse"
    /\ IF cur.req = "garbage"
       THEN /\ cur' = ResponseErr(cur, <<"Invalid request format">>,
                                  "PARSE_ERROR")
            /\ acc_pc' = "send"
       ELSE /\ cur' = [cur EXCEPT !.parsed = TRUE]
            /\ acc_pc' = "dispatch"
    /\ UNCHANGED <<socket_path_len, running_, server_fd_, sock_file, sock_shut,
                   backlog, handlers_, active_connections_,
                   connections_served_, main_pc, stop_inflight>>
    /\ UNCHANGED <<rlvars, notIPC>>

\* dispatch(), lines 361-379: look the method up under the shared lock; an
\* unknown method gives METHOD_NOT_FOUND, a known one is copied and invoked
HandleDispatch ==
    /\ acc_pc = "dispatch"
    /\ IF cur.req \notin handlers_
       THEN /\ cur' = ResponseErr(cur, <<"Method not found: ", cur.req>>,
                                  "METHOD_NOT_FOUND")
            /\ acc_pc' = "send"
       ELSE /\ cur' = [cur EXCEPT !.invoked = TRUE]
            /\ acc_pc' = "handler"
    /\ UNCHANGED <<socket_path_len, running_, server_fd_, sock_file, sock_shut,
                   backlog, handlers_, active_connections_,
                   connections_served_, main_pc, stop_inflight>>
    /\ UNCHANGED <<rlvars, notIPC>>

\* a dispatch() and handle_client() without their catch clauses: the
\* exception of a handler leaves the accept thread
HandlerThrowEscapes ==
    /\ acc_pc = "handler"
    /\ IF cur.req = "boom"
       THEN /\ acc_pc' = "exited"
            /\ UNCHANGED cur
       ELSE /\ cur' = ResponseOk(cur)
            /\ acc_pc' = "send"
    /\ UNCHANGED <<socket_path_len, running_, server_fd_, sock_file, sock_shut,
                   backlog, handlers_, active_connections_,
                   connections_served_, main_pc, stop_inflight>>
    /\ UNCHANGED <<rlvars, notIPC>>

\* dispatch(), lines 379-385: the handler returns its response, or throws and
\* the exception becomes INTERNAL_ERROR
HandlerReturns ==
    /\ acc_pc = "handler"
    /\ cur' = IF cur.req = "boom"
              THEN ResponseErr(cur, <<What>>, "INTERNAL_ERROR")
              ELSE ResponseOk(cur)
    /\ acc_pc' = "send"
    /\ UNCHANGED <<socket_path_len, running_, server_fd_, sock_file, sock_shut,
                   backlog, handlers_, active_connections_,
                   connections_served_, main_pc, stop_inflight>>
    /\ UNCHANGED <<rlvars, notIPC>>

\* handle_client(), lines 338-343: send(response)
HandleSend ==
    /\ acc_pc = "send"
    /\ cur' = [cur EXCEPT !.sends = @ + 1]
    /\ acc_pc' = "close"
    /\ UNCHANGED <<socket_path_len, running_, server_fd_, sock_file, sock_shut,
                   backlog, handlers_, active_connections_,
                   connections_served_, main_pc, stop_inflight>>
    /\ UNCHANGED <<rlvars, notIPC>>

\* handle_client(), lines 352-357: close, decrement, notify
HandleClose ==
    /\ acc_pc = "close"
    /\ cur' = [cur EXCEPT !.closed = TRUE]
    /\ active_connections_' = active_connections_ - 1
    /\ acc_pc' = "top"
    /\ UNCHANGED <<socket_path_len, running_, server_fd_, sock_file, sock_shut,
                   backlog, handlers_, connections_served_, main_pc,
                   stop_inflight>>
    /\ UNCHANGED <<rlvars, notIPC>>

\* stop(), lines 118-122: not running returns at once, else running_ = false
StopBegin ==
    /\ BetweenCalls
    /\ IF ~running_
       THEN /\ main_pc' = "stopped"
            /\ stop_inflight' = FALSE
            /\ UNCHANGED running_
       ELSE /\ running_' = FALSE
            /\ main_pc' = "stop_shutdown"
            /\ stop_inflight' = (acc_pc \in HandlingPcs)
    /\ UNCHANGED <<socket_path_len, server_fd_, sock_file, sock_shut, backlog,
                   handlers_, active_connections_, connections_served_, acc_pc,
                   cur>>
    /\ UNCHANGED <<rlvars, notIPC>>

\* stop(), lines 125-130: shutdown(server_fd_, SHUT_RDWR) under the fd mutex
StopShutdown ==
    /\ main_pc = "stop_shutdown"
    /\ sock_shut' = (server_fd_ # -1 \/ sock_shut)
    /\ main_pc' = "stop_join"
    /\ UNCHANGED <<socket_path_len, running_, server_fd_, sock_file, backlog,
                   handlers_, active_connections_, connections_served_, acc_pc,
                   cur, stop_inflight>>
    /\ UNCHANGED <<rlvars, notIPC>>

\* a stop() that does not wait for the accept thread
NoJoin == TRUE

\* stop(), lines 133-135: accept_thread_->join() returns
AcceptThreadJoined == acc_pc = "exited"

StopJoin ==
    /\ main_pc = "stop_join"
    /\ AcceptThreadJoined
    /\ main_pc' = "stop_wait"
    /\ UNCHANGED <<socket_path_len, running_, server_fd_, sock_file, sock_shut,
                   backlog, handlers_, active_connections_,
                   connections_served_, acc_pc, cur, stop_inflight>>
    /\ UNCHANGED <<rlvars, notIPC>>

\* stop(), lines 139-144: connections_cv_.wait until active_connections_ == 0
StopWait ==
    /\ main_pc = "stop_wait"
    /\ active_connections_ = 0
    /\ main_pc' = "stop_cleanup"
    /\ UNCHANGED <<socket_path_len, running_, server_fd_, sock_file, sock_shut,
                   backlog, handlers_, active_connections_,
                   connections_served_, acc_pc, cur, stop_inflight>>
    /\ UNCHANGED <<rlvars, notIPC>>

\* stop(), line 146, cleanup_socket(): close the descriptor, remove the file
StopCleanup ==
    /\ main_pc = "stop_cleanup"
    /\ server_fd_' = -1
    /\ sock_file' = FALSE
    /\ backlog' = <<>>
    /\ main_pc' = "stopped"
    /\ UNCHANGED <<socket_path_len, running_, sock_shut, handlers_,
                   active_connections_, connections_served_, acc_pc, cur,
                   stop_inflight>>
    /\ UNCHANGED <<rlvars, notIPC>>

\* the steady clock moves on
IPCTick ==
    /\ steady_now + TickMs <= MaxTimeMs
    /\ steady_now' = steady_now + TickMs
    /\ UNCHANGED <<count_, window_start_rep_>>
    /\ UNCHANGED ipcvars
    /\ UNCHANGED <<rllocals, notIPC>>

IPCNext ==
    \/ IPCTick
    \/ Start
    \/ \E m \in Methods : RegisterHandler(m)
    \/ \E r \in Requests : ClientConnect(r)
    \/ AcceptLoopTop
    \/ AcceptClient
    \/ AcceptFails
    \/ HandleEnter
    \/ HandleRecv
    \/ HandleRateLimit
    \/ HandleParse
    \/ HandleDispatch
    \/ HandlerReturns
    \/ HandleSend
    \/ HandleClose
    \/ StopBegin
    \/ StopShutdown
    \/ StopJoin
    \/ StopWait
    \/ StopCleanup

(***************************************************************************)
(* AlertStore: the alerts table as a set of rows                           *)
(***************************************************************************)
\* std::chrono::minutes(n) as a duration in ticks
Minutes(n) == n * 60 * TicksPerSecond

\* Clock::to_time_t: the whole seconds of a TimePoint, the fraction dropped
\* (truncation toward zero)
ToTimeT(t) ==
    IF t >= 0 THEN t \div TicksPerSecond ELSE 0 - ((0 - t) \div TicksPerSecond)

\* Clock::from_time_t: the TimePoint of a whole second
FromTimeT(s) == s * TicksPerSecond

\* bool -> INTEGER column
Bit(b) == IF b THEN 1 ELSE 0

\* insert(), lines 81-92: the twelve columns bound from an Alert
RowOf(a) ==
    [id |-> a.id,
     timestamp |-> ToTimeT(a.timestamp),
     severity |-> a.severity,
     type |-> a.type,
     title |-> a.title,
     message |-> a.message,
     metadata |-> a.metadata,
     acknowledged |-> Bit(a.acknowledged),
     resolved |-> Bit(a.resolved),
     acknowledged_at |-> IF a.acknowledged THEN ToTimeT(a.acknowledged_at) ELSE 0,
     resolved_at |-> IF a.resolved THEN ToTimeT(a.resolved_at) ELSE 0,
     resolution |-> a.resolution]

\* a row_to_alert that never reads the two time columns
RowWithoutTimes(r) ==
    [id |-> r.id,
     timestamp |-> FromTimeT(r.timestamp),
     severity |-> r.severity,
     type |-> r.type,
     title |-> r.title,
     message |-> r.message,
     metadata |-> r.metadata,
     acknowledged |-> r.acknowledged # 0,
     resolved |-> r.resolved # 0,
     acknowledged_at |-> Epoch,
     resolved_at |-> Epoch,
     resolution |-> r.resolution]

\* row_to_alert(), lines 302-344: a zero time column leaves the default
\* TimePoint in place
RowToAlert(r) ==
    [id |-> r.id,
     timestamp |-> FromTimeT(r.timestamp),
     severity |-> r.severity,
     type |-> r.type,
     title |-> r.title,
     message |-> r.message,
     metadata |-> r.metadata,
     acknowledged |-> r.acknowledged # 0,
     resolved |-> r.resolved # 0,
     acknowledged_at |-> IF r.acknowledged_at > 0 THEN FromTimeT(r.acknowledged_at)
                         ELSE Epoch,
     resolved_at |-> IF r.resolved_at > 0 THEN FromTimeT(r.resolved_at)
                     ELSE Epoch,
     resolution |-> r.resolution]

\* an insert into a table without the PRIMARY KEY constraint
InsertNoPrimaryKey(tbl, a) ==
    [ok |-> TRUE, rows |-> tbl \cup {RowOf(a)}]

\* insert(), lines 63-98: INSERT INTO alerts; id is the PRIMARY KEY, so the
\* step fails when a row with the id exists
StoreInsert(tbl, a) ==
    IF \E r \in tbl : r.id = a.id
    THEN [ok |-> FALSE, rows |-> tbl]
    ELSE [ok |-> TRUE, rows |-> tbl \cup {RowOf(a)}]

\* an update that leaves the WHERE clause out
UpdateEveryRow(tbl, a) ==
    [ok |-> TRUE,
     rows |-> {[r EXCEPT
                  !.acknowledged = Bit(a.acknowledged),
                  !.resolved = Bit(a.resolved),
                  !.acknowledged_at =
                      IF a.acknowledged THEN ToTimeT(a.acknowledged_at) ELSE 0,
                  !.resolved_at =
                      IF a.resolved THEN ToTimeT(a.resolved_at) ELSE 0,
                  !.resolution = a.resolution] : r \in tbl}]

\* an update that writes every column of the row from the alert
UpdateWholeRow(tbl, a) ==
    [ok |-> TRUE,
     rows |-> {IF r.id = a.id THEN RowOf(a) ELSE r : r \in tbl}]

\* update(), lines 100-128: UPDATE ... WHERE id = ?; the step is SQLITE_DONE
\* whether or not a row matched
StoreUpdate(tbl, a) ==
    [ok |-> TRUE,
     rows |-> {IF r.id = a.id
               THEN [r EXCEPT
                       !.acknowledged = Bit(a.acknowledged),
                       !.resolved = Bit(a.resolved),
                       !.acknowledged_at =
                           IF a.acknowledged THEN ToTimeT(a.acknowledged_at) ELSE 0,
                       !.resolved_at =
                           IF a.resolved THEN ToTimeT(a.resolved_at) ELSE 0,
                       !.resolution = a.resolution]
               ELSE r : r \in tbl}]

\* a remove that reports success and deletes nothing
RemoveNothing(tbl, id) ==
    [ok |-> TRUE, rows |-> tbl]

\* remove(), lines 130-145: DELETE FROM alerts WHERE id = ?; SQLITE_DONE
\* whether or not a row matched
StoreRemove(tbl, id) ==
    [ok |-> TRUE, rows |-> {r \in tbl : r.id # id}]

\* get(), lines 147-165: the alert of the row with the id, or nothing
StoreGet(tbl, id) ==
    {RowToAlert(r) : r \in {x \in tbl : x.id = id}}

\* get_all(), lines 167-183 (the rows, without the order and the limit)
StoreGetAll(tbl) == {RowToAlert(r) : r \in tbl}

\* a get_active that also leaves out the resolved rows
GetActiveUnresolved(tbl) ==
    {RowToAlert(r) : r \in {x \in tbl : x.acknowledged = 0 /\ x.resolved = 0}}

\* get_active(), lines 185-201: WHERE acknowledged = 0
StoreGetActive(tbl) == {RowToAlert(r) : r \in {x \in tbl : x.acknowledged = 0}}

\* a get_by_severity without the acknowledged = 0 condition
GetBySeverityAnyState(tbl, sev) ==
    {RowToAlert(r) : r \in {x \in tbl : x.severity = sev}}

\* get_by_severity(), lines 203-221: WHERE severity = ? AND acknowledged = 0
StoreGetBySeverity(tbl, sev) ==
    {RowToAlert(r) : r \in {x \in tbl : x.severity = sev /\ x.acknowledged = 0}}

\* get_by_type(), lines 223-241: WHERE type = ? AND acknowledged = 0
StoreGetByType(tbl, ty) ==
    {RowToAlert(r) : r \in {x \in tbl : x.type = ty /\ x.acknowledged = 0}}

\* count_active(), lines 243-259: COUNT(*) WHERE acknowledged = 0
StoreCountActive(tbl) == Cardinality({r \in tbl : r.acknowledged = 0})

\* count_by_severity(), lines 261-279
StoreCountBySeverity(tbl, sev) ==
    Cardinality({r \in tbl : r.severity = sev /\ r.acknowledged = 0})

\* cleanup_before(), lines 281-300: DELETE WHERE timestamp < ? AND resolved = 1
StoreCleanupBefore(tbl, cutoff) ==
    LET gone == {r \in tbl : r.timestamp < ToTimeT(cutoff) /\ r.resolved = 1}
    IN  [deleted |-> Cardinality(gone), rows |-> tbl \ gone]

(***************************************************************************)
(* AlertStore alone: insert(alert), then get(alert.id)                     *)
(***************************************************************************)
\* the time points an Alert's fields are drawn from: a whole second, and the
\* same second with a fraction
RTTimes == {FromTimeT(1), FromTimeT(1) + 1}

\* the alerts insert() is called with
RTAlerts ==
    [id : {"a1"},
     timestamp : RTTimes,
     severity : {"WARNING", "CRITICAL"},
     type : {"DISK_USAGE"},
     title : {"High disk usage"},
     message : {"msg"},
     metadata : {"ai_enhanced=pending"},
     acknowledged : BOOLEAN,
     resolved : BOOLEAN,
     acknowledged_at : {Epoch} \cup RTTimes,
     resolved_at : {Epoch} \cup RTTimes,
     resolution : {"", "fixed"}]

\* the tables insert() is called on: empty, or holding another alert
RTTables ==
    {{}, {[id |-> "a2", timestamp |-> 1, severity |-> "INFO",
           type |-> "SYSTEM", title |-> "other", message |-> "msg",
           metadata |-> "", acknowledged |-> 0, resolved |-> 0,
           acknowledged_at |-> 0, resolved_at |-> 0, resolution |-> ""]}}

RTInit ==
    /\ rt_alert \in RTAlerts
    /\ rt_rows \in RTTables
    /\ rt_got = {}
    /\ rt_pc = "input"

\* the store is not exercised alone
RTIdle ==
    /\ rt_alert = <<>>
    /\ rt_rows = {}
    /\ rt_got = {}
    /\ rt_pc = "idle"

\* insert(alert)
RTInsert ==
    /\ rt_pc = "input"
    /\ rt_rows' = StoreInsert(rt_rows, rt_alert).rows
    /\ rt_pc' = "inserted"
    /\ UNCHANGED <<rt_alert, rt_got>>
    /\ UNCHANGED notRT

\* get(alert.id)
RTGet ==
    /\ rt_pc = "inserted"
    /\ rt_got' = StoreGet(rt_rows, rt_alert.id)
    /\ rt_pc' = "got"
    /\ UNCHANGED <<rt_alert, rt_rows>>
    /\ UNCHANGED notRT

\* the alerts update() is called with: the ID of the inserted alert, of the
\* other alert or of none, and other values in every field
RTUpdates ==
    [id : {"a1", "a2", "a9"},
     timestamp : {FromTimeT(2)},
     severity : {"INFO"},
     type : {"SYSTEM"},
     title : {"changed"},
     message : {"changed"},
     metadata : {"changed"},
     acknowledged : BOOLEAN,
     resolved : BOOLEAN,
     acknowledged_at : {Epoch, FromTimeT(3)},
     resolved_at : {Epoch, FromTimeT(3)},
     resolution : {"", "done"}]

\* update(a) on the table
RTUpdateWith(a) ==
    /\ rt_pc = "got"
    /\ rt_rows' = StoreUpdate(rt_rows, a).rows
    /\ rt_pc' = "updated"
    /\ UNCHANGED <<rt_alert, rt_got>>
    /\ UNCHANGED notRT

RTUpdate == \E a \in RTUpdates : RTUpdateWith(a)

RTNext ==
    \/ RTInsert
    \/ RTGet
    \/ RTUpdate

(***************************************************************************)
(* AlertManager (declared in alert_manager.h; every operation runs under   *)
(* the manager's mutex, so each is one step)                               *)
(***************************************************************************)
\* the IDs generate_id() draws from
Ids == {"a1", "a2"}

\* the (severity, type, title) triples create() is called with
CreateInputs ==
    { <<"WARNING", "DISK_USAGE", "High disk usage">>,
      <<"CRITICAL", "DISK_USAGE", "Critical disk usage">> }

\* the callbacks on_alert() may register; the second one throws
Callbacks == {"cb_ok", "cb_throws"}
Throws(cb) == cb = "cb_throws"

Resolutions == {"fixed"}

\* cleanup_old(std::chrono::hours max_age): the ages it is called with
MaxAges == {0, 1}

\* get_alert_hash(): the dedup key of (severity, type, title)
AlertHash(sev, ty, title) == <<sev, ty, title>>

\* an eviction that drops every entry
EvictAll(recent, now) == <<>>

\* an eviction that drops nothing
EvictNone(recent, now) == recent

\* is_duplicate(), first half: drop the entries older than dedup_window_
EvictOld(recent, now) ==
    [k \in {x \in DOMAIN recent : ~(now - recent[x] > Minutes(DedupWindow))}
       |-> recent[k]]

\* is_duplicate(), second half: the key is still in recent_alerts_
IsDuplicate(recent, k) == k \in DOMAIN recent

\* a notification that lets the first exception end the loop
RECURSIVE NotifyUntilThrow(_)
NotifyUntilThrow(cbs) ==
    IF cbs = <<>> THEN <<>>
    ELSE IF Throws(Head(cbs)) THEN <<Head(cbs)>>
    ELSE <<Head(cbs)>> \o NotifyUntilThrow(Tail(cbs))

\* notify_callbacks(): every callback in turn; one that throws is caught and
\* logged, and the loop goes on.  The result lists the callbacks invoked.
RECURSIVE NotifyCallbacks(_)
NotifyCallbacks(cbs) ==
    IF cbs = <<>> THEN <<>>
    ELSE <<Head(cbs)>> \o NotifyCallbacks(Tail(cbs))

\* the Alert create() builds
NewAlert(id, sev, ty, title, now) ==
    [id |-> id, timestamp |-> now, severity |-> sev, type |-> ty,
     title |-> title, message |-> "msg", metadata |-> "ai_enhanced=pending",
     acknowledged |-> FALSE, resolved |-> FALSE, acknowledged_at |-> Epoch,
     resolved_at |-> Epoch, resolution |-> ""]

\* ACTIVE, ACKNOWLEDGED or RESOLVED, read off the two flags
StateOf(a) ==
    IF a.resolved THEN "RESOLVED"
    ELSE IF a.acknowledged THEN "ACKNOWLEDGED" ELSE "ACTIVE"

\* history: what the last manager call was and what it returned
NoCall == [op |-> "none", id |-> NoId, ret |-> 0,
           dup |-> FALSE, retried |-> FALSE,
           notified |-> <<>>, was |-> "none", resp |-> "none"]

Call(op) == [NoCall EXCEPT !.op = op]

\* AlertManager::AlertManager: an empty store, no callbacks
AMInit ==
    /\ wall_now = TicksPerSecond + 1
    /\ rows = {}
    /\ recent_alerts_ = <<>>
    /\ callbacks_ = <<>>
    /\ issued = <<>>
    /\ last = NoCall

\* the wall clock moves on
AMTick ==
    /\ wall_now + Minutes(WallTick) <= Minutes(MaxWallNow)
    /\ wall_now' = wall_now + Minutes(WallTick)
    /\ UNCHANGED <<rows, recent_alerts_, callbacks_, issued, last>>
    /\ UNCHANGED notAM

\* create(): evict, then a key still present returns the ID its alert was
\* admitted with; otherwise generate an ID, insert (an ID collision retries
\* with a freshly generated ID), record key |-> now and notify the callbacks
Create(sev, ty, title, id1, id2) ==
    LET now == wall_now
        k == AlertHash(sev, ty, title)
        recent == EvictOld(recent_alerts_, now)
        first == StoreInsert(rows, NewAlert(id1, sev, ty, title, now))
        second == StoreInsert(rows, NewAlert(id2, sev, ty, title, now))
        id == IF first.ok THEN id1 ELSE id2
        ins == IF first.ok THEN first ELSE second
    IN  IF IsDuplicate(recent, k)
        THEN /\ recent_alerts_' = recent
             /\ last' = [Call("create") EXCEPT !.id = issued[k].id,
                                               !.dup = TRUE]
             /\ UNCHANGED <<rows, issued>>
        ELSE /\ ins.ok
             /\ rows' = ins.rows
             /\ recent_alerts_' =
                    [x \in DOMAIN recent \cup {k} |->
                        IF x = k THEN now ELSE recent[x]]
             /\ issued' =
                    [x \in DOMAIN issued \cup {k} |->
                        IF x = k THEN [at |-> now, id |-> id] ELSE issued[x]]
             /\ last' = [Call("create") EXCEPT
                            !.id = id,
                            !.retried = ~first.ok,
                            !.notified = NotifyCallbacks(callbacks_)]

AMCreate ==
    /\ \E in \in CreateInputs, id1, id2 \in Ids :
          Create(in[1], in[2], in[3], id1, id2)
    /\ UNCHANGED <<wall_now, callbacks_>>
    /\ UNCHANGED notAM

\* acknowledge(id): get the alert, set acknowledged and acknowledged_at = now,
\* update; false when there is no such alert
DoAcknowledge(tbl, id, now) ==
    LET found == StoreGet(tbl, id) IN
    IF found = {}
    THEN [ok |-> FALSE, rows |-> tbl]
    ELSE LET a == CHOOSE x \in found : TRUE
         IN  StoreUpdate(tbl, [a EXCEPT !.acknowledged = TRUE,
                                        !.acknowledged_at = now])

Acknowledge(id) ==
    LET res == DoAcknowledge(rows, id, wall_now)
    IN  /\ rows' = res.rows
        /\ last' = [Call("acknowledge") EXCEPT !.ret = Bit(res.ok)]

AMAcknowledge ==
    /\ \E id \in Ids : Acknowledge(id)
    /\ UNCHANGED <<wall_now, recent_alerts_, callbacks_, issued>>
    /\ UNCHANGED notAM

\* resolve(id, resolution): get the alert, set resolved, resolved_at = now and
\* the resolution text, update; false when there is no such alert
Resolve(id, text) ==
    LET found == StoreGet(rows, id) IN
    IF found = {}
    THEN /\ last' = Call("resolve")
         /\ UNCHANGED rows
    ELSE LET a == CHOOSE x \in found : TRUE
             b == [a EXCEPT !.resolved = TRUE, !.resolved_at = wall_now,
                            !.resolution = text]
             upd == StoreUpdate(rows, b)
         IN  /\ rows' = upd.rows
             /\ last' = [Call("resolve") EXCEPT
                            !.ret = Bit(upd.ok), !.was = StateOf(a)]

AMResolve ==
    /\ \E id \in Ids, text \in Resolutions : Resolve(id, text)
    /\ UNCHANGED <<wall_now, recent_alerts_, callbacks_, issued>>
    /\ UNCHANGED notAM

\* dismiss(id): remove the row from the store
Dismiss(id) ==
    LET found == StoreGet(rows, id)
        rem == StoreRemove(rows, id)
    IN  /\ rows' = rem.rows
        /\ last' = [Call("dismiss") EXCEPT
                       !.id = id,
                       !.ret = Bit(rem.ok),
                       !.was = IF found = {} THEN "none"
                               ELSE StateOf(CHOOSE x \in found : TRUE)]

AMDismiss ==
    /\ \E id \in Ids : Dismiss(id)
    /\ UNCHANGED <<wall_now, recent_alerts_, callbacks_, issued>>
    /\ UNCHANGED notAM

\* update() called for each alert of a list in turn
RECURSIVE UpdateEach(_, _)
UpdateEach(tbl, alerts) ==
    IF alerts = {} THEN tbl
    ELSE LET a == CHOOSE x \in alerts : TRUE
         IN  UpdateEach(StoreUpdate(tbl, a).rows, alerts \ {a})

\* acknowledge_all(): acknowledge every alert get_active() returns, count
\* the updates
DoAcknowledgeAll(tbl, now) ==
    LET active == StoreGetActive(tbl)
        acked == {[a EXCEPT !.acknowledged = TRUE, !.acknowledged_at = now]
                    : a \in active}
    IN  [count |-> Cardinality(active), rows |-> UpdateEach(tbl, acked)]

AcknowledgeAll ==
    LET res == DoAcknowledgeAll(rows, wall_now)
    IN  /\ rows' = res.rows
        /\ last' = [Call("acknowledge_all") EXCEPT !.ret = res.count]

AMAcknowledgeAll ==
    /\ AcknowledgeAll
    /\ UNCHANGED <<wall_now, recent_alerts_, callbacks_, issued>>
    /\ UNCHANGED notAM

\* cleanup_old(max_age): cleanup_before(now - max_age)
CleanupOld(hours) ==
    LET res == StoreCleanupBefore(rows, wall_now - Minutes(hours * MinutesPerHour))
    IN  /\ rows' = res.rows
        /\ last' = [Call("cleanup_old") EXCEPT !.ret = res.deleted]

AMCleanupOld ==
    /\ \E h \in MaxAges : CleanupOld(h)
    /\ UNCHANGED <<wall_now, recent_alerts_, callbacks_, issued>>
    /\ UNCHANGED notAM

\* on_alert(callback): callbacks_.push_back(callback)
OnAlert(cb) ==
    /\ \A i \in 1..Len(callbacks_) : callbacks_[i] # cb
    /\ callbacks_' = Append(callbacks_, cb)
    /\ last' = Call("on_alert")

AMOnAlert ==
    /\ \E cb \in Callbacks : OnAlert(cb)
    /\ UNCHANGED <<wall_now, rows, recent_alerts_, issued>>
    /\ UNCHANGED notAM

(***************************************************************************)
(* The alerts.ack request (handlers.cpp) over a manager whose database     *)
(* already holds alerts                                                    *)
(***************************************************************************)
\* the IDs of the alerts the database may hold when the manager opens it
AckIds == {"a1", "a2", "a3"}

\* the values of AlertSeverity and AlertType that the monitor and the Alert
\* structure name (system_monitor.cpp, alert_manager.h)
Severities == {"INFO", "WARNING", "CRITICAL"}
Types == {"SYSTEM", "DISK_USAGE", "MEMORY_USAGE", "SECURITY_UPDATE",
          "CVE_FOUND", "AI_ANALYSIS"}

\* the severity and type of the alerts the database may hold
StoredKinds == {<<"WARNING", "DISK_USAGE">>, <<"CRITICAL", "DISK_USAGE">>,
                <<"WARNING", "MEMORY_USAGE">>}

\* an alert the manager left in the database: created, and then possibly
\* acknowledged and possibly resolved, in the second after its creation
StoredAlert(id, sev, ty, ack, res) ==
    [NewAlert(id, sev, ty, "High usage", FromTimeT(1))
        EXCEPT !.acknowledged = ack,
               !.acknowledged_at = IF ack THEN FromTimeT(2) ELSE Epoch,
               !.resolved = res,
               !.resolved_at = IF res THEN FromTimeT(2) ELSE Epoch,
               !.resolution = IF res THEN "fixed" ELSE ""]

\* what the database may hold for one ID: nothing, or one row
StoredRows(id) ==
    {{}} \cup {{RowOf(StoredAlert(id, k[1], k[2], ack, res))} :
                  k \in StoredKinds, ack \in BOOLEAN, res \in BOOLEAN}

\* the databases the manager may be opened on
AckTables ==
    {r1 \cup r2 \cup r3 :
        r1 \in StoredRows("a1"), r2 \in StoredRows("a2"), r3 \in StoredRows("a3")}

\* AlertManager::AlertManager on an existing database
AckInit ==
    /\ wall_now = FromTimeT(3)
    /\ rows \in AckTables
    /\ recent_alerts_ = <<>>
    /\ callbacks_ = <<>>
    /\ issued = <<>>
    /\ last = NoCall

\* the parameters of an alerts.ack request: {id}, {all:true}, {all:false}, {}
AckParams ==
    {[has_id |-> TRUE, id |-> i, has_all |-> FALSE, all |-> FALSE] : i \in AckIds}
    \cup {[has_id |-> FALSE, id |-> NoId, has_all |-> TRUE, all |-> b] : b \in BOOLEAN}
    \cup {[has_id |-> FALSE, id |-> NoId, has_all |-> FALSE, all |-> FALSE]}

\* Handlers::handle_alerts_ack, lines 189-208
HandleAlertsAck(alerts, params) ==
    IF ~alerts
    THEN /\ last' = [Call("alerts.ack") EXCEPT !.resp = "INTERNAL_ERROR"]
         /\ UNCHANGED rows
    ELSE IF params.has_id
    THEN LET res == DoAcknowledge(rows, params.id, wall_now)
         IN  /\ rows' = res.rows
             /\ last' = [Call("alerts.ack") EXCEPT
                            !.id = params.id,
                            !.resp = IF res.ok THEN "acknowledged"
                                     ELSE "ALERT_NOT_FOUND"]
    ELSE IF params.has_all /\ params.all
    THEN LET res == DoAcknowledgeAll(rows, wall_now)
         IN  /\ rows' = res.rows
             /\ last' = [Call("alerts.ack") EXCEPT
                            !.ret = res.count, !.resp = "acknowledged_count"]
    ELSE /\ last' = [Call("alerts.ack") EXCEPT !.resp = "INVALID_PARAMS"]
         /\ UNCHANGED rows

AMHandleAlertsAck ==
    /\ \E alerts \in BOOLEAN, params \in AckParams : HandleAlertsAck(alerts, params)
    /\ UNCHANGED <<wall_now, recent_alerts_, callbacks_, issued>>
    /\ UNCHANGED notAM

\* dismiss(id) as a function of the table: remove the row from the store
DoDismiss(tbl, id) == StoreRemove(tbl, id)

\* Handlers::handle_alerts_dismiss, lines 210-225
HandleAlertsDismiss(alerts, params) ==
    IF ~alerts
    THEN /\ last' = [Call("alerts.dismiss") EXCEPT !.resp = "INTERNAL_ERROR"]
         /\ UNCHANGED rows
    ELSE IF ~params.has_id
    THEN /\ last' = [Call("alerts.dismiss") EXCEPT !.resp = "INVALID_PARAMS"]
         /\ UNCHANGED rows
    ELSE LET res == DoDismiss(rows, params.id)
         IN  /\ rows' = res.rows
             /\ last' = [Call("alerts.dismiss") EXCEPT
                            !.id = params.id,
                            !.resp = IF res.ok THEN "dismissed"
                                     ELSE "ALERT_NOT_FOUND"]

AMHandleAlertsDismiss ==
    /\ \E alerts \in BOOLEAN, params \in AckParams :
          HandleAlertsDismiss(alerts, params)
    /\ UNCHANGED <<wall_now, recent_alerts_, callbacks_, issued>>
    /\ UNCHANGED notAM

AckNext ==
    \/ AMAcknowledgeAll
    \/ AMHandleAlertsAck
    \/ AMHandleAlertsDismiss

AMNext ==
    \/ AMTick
    \/ AMCreate
    \/ AMAcknowledge
    \/ AMResolve
    \/ AMDismiss
    \/ AMAcknowledgeAll
    \/ AMCleanupOld
    \/ AMOnAlert

(***************************************************************************)
(* SystemMonitor (system_monitor.cpp), the health handler (handlers.cpp)   *)
(* and the detached analysis threads                                       *)
(***************************************************************************)
\* the monitor's worker thread and the thread serving health requests
MonThreads == {"worker", "handler"}

\* config.disk_warn_threshold etc., as percentages
disk_warn_threshold == 80
disk_crit_threshold == 95
mem_warn_threshold == 80
mem_crit_threshold == 95

\* the statistics a pass may collect: memory and disk usage in percent (below
\* the warning threshold, on it, and on the critical threshold) and
\* apt_monitor_->security_count()
Samples ==
    {[memory_usage_percent |-> 79, disk_usage_percent |-> 95, security_updates |-> 0],
     [memory_usage_percent |-> 80, disk_usage_percent |-> 79, security_updates |-> 1],
     [memory_usage_percent |-> 95, disk_usage_percent |-> 80, security_updates |-> 0]}

\* the default-constructed HealthSnapshot
EmptySnapshot ==
    [timestamp |-> Epoch, memory_usage_percent |-> 0, disk_usage_percent |-> 0,
     security_updates |-> 0, llm_loaded |-> FALSE, active_alerts |-> 0]

\* the statistics of a pass that has collected none
NoSample == [memory_usage_percent |-> 0, disk_usage_percent |-> 0,
             security_updates |-> 0]

\* history of a pass that has not evaluated a threshold yet
NoChecks == [stage |-> {}, disk_pct |-> 0, mem_pct |-> 0, req |-> <<>>]

\* the handler's locals before a health request
NoHealth == [seen |-> EmptySnapshot, forced |-> FALSE,
             snapshot |-> EmptySnapshot, answered |-> FALSE]

\* the empty string create() returns for no alert
NoAlertId == <<>>

\* metadata_copy["ai_enhanced"] = "pending", lines 398-399
PendingMetadata == [ai_enhanced |-> "pending", parent_alert_id |-> NoAlertId]

\* ai_metadata, lines 429-431
AiMetadata(alert_id) == [ai_enhanced |-> "true", parent_alert_id |-> alert_id]

\* alert_manager_->create(): an alert of the same severity, type and title
\* admitted within the dedup window returns its ID; otherwise the alert is
\* inserted under a new ID.  The passes modelled lie within one dedup window,
\* so an alert is named by its severity, type and title.
MgrCreate(alerts, sev, ty, title, meta) ==
    LET id == <<sev, ty, title>>
    IN  IF \E a \in alerts : a.id = id
        THEN [id |-> id, alerts |-> alerts]
        ELSE [id |-> id,
              alerts |-> alerts \cup {[id |-> id, severity |-> sev, type |-> ty,
                                       title |-> title, metadata |-> meta]}]

\* alert_manager_->count_active(): no alert is acknowledged here
MgrCountActive(alerts) == Cardinality(alerts)

\* SystemMonitor::SystemMonitor and start(); the engine is loaded or not, and
\* the monitor's mirror agrees with it
\* run_checks(), line 177: check_updates() runs when current_count % 5 == 0
AptCheckEvery == 5

\* trig_clock before any trigger_check()
NoTrigger == -1

\* SystemMonitor::SystemMonitor: the package counter before the first pass
AptInit ==
    /\ apt_counter_ = 0
    /\ apt_log = {}

\* start() has run (running_ = true, the worker thread exists); the locals
\* of monitor_loop() are not followed
LoopUnused ==
    /\ mon_running_ = TRUE
    /\ check_requested_ = FALSE
    /\ loop_now = 0
    /\ last_check = 0
    /\ now_loc = 0
    /\ trig_clock = NoTrigger

MonInit ==
    /\ current_snapshot_ = EmptySnapshot
    /\ snapshot_mutex_ = "none"
    /\ mon_clock = Epoch
    /\ llm_is_loaded \in BOOLEAN
    /\ infer_result \in {"success", "failure"}
    /\ llm_is_loaded \/ infer_result = "failure"
    /\ llm_loaded_ = llm_is_loaded
    /\ mon_pc = [t \in MonThreads |-> IF t = "worker" THEN "run_checks" ELSE "idle"]
    /\ sample = [t \in MonThreads |-> NoSample]
    /\ passes_left = MaxPasses - 1
    /\ health_left = MaxHealth
    /\ health = NoHealth
    /\ mgr_alerts = {}
    /\ tasks = {}
    /\ published = {}
    /\ checked = [t \in MonThreads |-> NoChecks]
    /\ enable_ai_alerts \in BOOLEAN
    /\ enable_ai_alerts \/ (llm_is_loaded /\ infer_result = "success")
    /\ enable_apt_monitor = TRUE
    /\ readings = Samples
    /\ AptInit
    /\ LoopUnused

\* no monitor
MonIdle ==
    /\ current_snapshot_ = EmptySnapshot
    /\ snapshot_mutex_ = "none"
    /\ mon_clock = Epoch
    /\ llm_loaded_ = FALSE
    /\ llm_is_loaded = FALSE
    /\ infer_result = "failure"
    /\ mon_pc = [t \in MonThreads |-> "off"]
    /\ sample = [t \in MonThreads |-> NoSample]
    /\ passes_left = 0
    /\ health_left = 0
    /\ health = NoHealth
    /\ mgr_alerts = {}
    /\ tasks = {}
    /\ published = {}
    /\ checked = [t \in MonThreads |-> NoChecks]
    /\ enable_ai_alerts = TRUE
    /\ enable_apt_monitor = TRUE
    /\ readings = {}
    /\ AptInit
    /\ mon_running_ = FALSE
    /\ check_requested_ = FALSE
    /\ loop_now = 0
    /\ last_check = 0
    /\ now_loc = 0
    /\ trig_clock = NoTrigger

\* a lock_guard that never waits
NoSnapshotMutex == TRUE

\* std::lock_guard<std::mutex> lock(snapshot_mutex_) can be taken
SnapshotMutexFree == snapshot_mutex_ = "none"

\* a counter that is read and not incremented
FetchWithoutAdd(counter) == [value |-> counter, counter |-> counter]

\* run_checks(), line 176: apt_counter_.fetch_add(1) returns the old value
FetchAdd(counter) == [value |-> counter, counter |-> counter + 1]

\* run_checks(), lines 168-182: with the package monitor enabled the pass
\* takes a counter value and runs check_updates() when it is a multiple of 5
AptStep ==
    IF enable_apt_monitor
    THEN LET f == FetchAdd(apt_counter_)
         IN  /\ apt_counter_' = f.counter
             /\ apt_log' = apt_log \cup
                    {[value |-> f.value,
                      check_updates |-> (f.value % AptCheckEvery = 0)]}
    ELSE UNCHANGED <<apt_counter_, apt_log>>

\* run_checks(), lines 134-187: collect the statistics (the collectors catch
\* their own exceptions; without the package monitor the update counts are
\* 0), take the snapshot mutex and write the timestamp
RunChecksBegin(t) ==
    /\ mon_pc[t] = "run_checks"
    /\ SnapshotMutexFree
    /\ AptStep
    /\ \E collected \in readings :
          sample' = [sample EXCEPT ![t] =
                        IF enable_apt_monitor THEN collected
                        ELSE [collected EXCEPT !.security_updates = 0]]
    /\ snapshot_mutex_' = t
    /\ mon_clock' = mon_clock + 1
    /\ current_snapshot_' = [current_snapshot_ EXCEPT !.timestamp = mon_clock + 1]
    /\ checked' = [checked EXCEPT ![t] = NoChecks]
    /\ health' = IF t = "handler" THEN [health EXCEPT !.forced = TRUE] ELSE health
    /\ mon_pc' = [mon_pc EXCEPT ![t] = "publish"]
    /\ UNCHANGED <<llm_loaded_, llm_is_loaded, infer_result, passes_left,
                   health_left, mgr_alerts, tasks, published>>
    /\ UNCHANGED notMonApt

\* run_checks(), lines 188-210: write the other fields and release the mutex
RunChecksPublish(t) ==
    /\ mon_pc[t] = "publish"
    /\ LET snap == [timestamp |-> current_snapshot_.timestamp,
                    memory_usage_percent |-> sample[t].memory_usage_percent,
                    disk_usage_percent |-> sample[t].disk_usage_percent,
                    security_updates |-> sample[t].security_updates,
                    llm_loaded |-> llm_loaded_,
                    active_alerts |-> MgrCountActive(mgr_alerts)]
       IN  /\ current_snapshot_' = snap
           /\ published' = published \cup {snap}
    /\ snapshot_mutex_' = "none"
    /\ sample' = [sample EXCEPT ![t] = NoSample]
    /\ mon_pc' = [mon_pc EXCEPT ![t] = "check_disk"]
    /\ UNCHANGED <<mon_clock, llm_loaded_, llm_is_loaded, infer_result,
                   passes_left, health_left, health, mgr_alerts, tasks, checked>>
    /\ UNCHANGED notMon

\* a create_smart_alert that starts the thread and creates no alert
SpawnWithoutAlert(sev, ty, title) ==
    /\ UNCHANGED mgr_alerts
    /\ tasks' = tasks \cup {[alert_id |-> <<sev, ty, title>>, severity |-> sev,
                              type |-> ty, title |-> title]}

\* create_smart_alert(), lines 393-454: create the primary alert, then start a
\* detached thread if the ID is not empty and the engine is loaded
CreateSmartAlert(sev, ty, title) ==
    LET res == MgrCreate(mgr_alerts, sev, ty, title, PendingMetadata)
    IN  /\ mgr_alerts' = res.alerts
        /\ tasks' = IF res.id # NoAlertId /\ llm_is_loaded
                    THEN tasks \cup {[alert_id |-> res.id, severity |-> sev,
                                      type |-> ty, title |-> title]}
                    ELSE tasks

\* a comparison that lets a usage on the threshold pass
Above(pct, threshold) == pct > threshold

\* disk_pct >= config.disk_crit_threshold, and the like
AtLeast(pct, threshold) == pct >= threshold

\* check_thresholds(), lines 233-265: the disk usage, read from
\* current_snapshot_ without the mutex
CheckDisk(t) ==
    /\ mon_pc[t] = "check_disk"
    /\ LET disk_pct == current_snapshot_.disk_usage_percent
           sev == IF AtLeast(disk_pct, disk_crit_threshold) THEN "CRITICAL"
                  ELSE IF AtLeast(disk_pct, disk_warn_threshold) THEN "WARNING"
                  ELSE "none"
           title == IF sev = "CRITICAL" THEN "Critical disk usage"
                    ELSE "High disk usage"
       IN  /\ IF sev = "none"
              THEN UNCHANGED <<mgr_alerts, tasks>>
              ELSE CreateSmartAlert(sev, "DISK_USAGE", title)
           /\ checked' = [checked EXCEPT ![t] =
                  [@ EXCEPT !.stage = @ \cup {"disk"},
                            !.disk_pct = disk_pct,
                            !.req = IF sev = "none" THEN @
                                    ELSE Append(@, <<sev, "DISK_USAGE">>)]]
    /\ mon_pc' = [mon_pc EXCEPT ![t] = "check_mem"]
    /\ UNCHANGED <<current_snapshot_, snapshot_mutex_, mon_clock, llm_loaded_,
                   llm_is_loaded, infer_result, sample, passes_left,
                   health_left, health, published>>
    /\ UNCHANGED notMon

\* check_thresholds(), lines 267-297: the memory usage
CheckMem(t) ==
    /\ mon_pc[t] = "check_mem"
    /\ LET mem_pct == current_snapshot_.memory_usage_percent
           sev == IF AtLeast(mem_pct, mem_crit_threshold) THEN "CRITICAL"
                  ELSE IF AtLeast(mem_pct, mem_warn_threshold) THEN "WARNING"
                  ELSE "none"
           title == IF sev = "CRITICAL" THEN "Critical memory usage"
                    ELSE "High memory usage"
       IN  /\ IF sev = "none"
              THEN UNCHANGED <<mgr_alerts, tasks>>
              ELSE CreateSmartAlert(sev, "MEMORY_USAGE", title)
           /\ checked' = [checked EXCEPT ![t] =
                  [@ EXCEPT !.stage = @ \cup {"mem"},
                            !.mem_pct = mem_pct,
                            !.req = IF sev = "none" THEN @
                                    ELSE Append(@, <<sev, "MEMORY_USAGE">>)]]
    /\ mon_pc' = [mon_pc EXCEPT ![t] = "check_security"]
    /\ UNCHANGED <<current_snapshot_, snapshot_mutex_, mon_clock, llm_loaded_,
                   llm_is_loaded, infer_result, sample, passes_left,
                   health_left, health, published>>
    /\ UNCHANGED notMon

\* check_thresholds(), lines 299-326: the security updates; run_checks()
\* returns
CheckSecurity(t) ==
    /\ mon_pc[t] = "check_security"
    /\ LET breach == current_snapshot_.security_updates > 0
       IN  /\ IF breach
              THEN CreateSmartAlert("WARNING", "SECURITY_UPDATE",
                                    "Security updates available")
              ELSE UNCHANGED <<mgr_alerts, tasks>>
           /\ checked' = [checked EXCEPT ![t] =
                  [@ EXCEPT !.stage = @ \cup {"security"},
                            !.req = IF breach
                                    THEN Append(@, <<"WARNING", "SECURITY_UPDATE">>)
                                    ELSE @]]
    /\ mon_pc' = [mon_pc EXCEPT ![t] = "checked"]
    /\ UNCHANGED <<current_snapshot_, snapshot_mutex_, mon_clock, llm_loaded_,
                   llm_is_loaded, infer_result, sample, passes_left,
                   health_left, health, published>>
    /\ UNCHANGED notMon

\* monitor_loop(), lines 108-132: back in the loop; the next pass starts when
\* the interval has elapsed or a check was requested
MonitorLoop ==
    /\ mon_pc["worker"] = "checked"
    /\ IF passes_left > 0
       THEN /\ mon_pc' = [mon_pc EXCEPT !["worker"] = "run_checks"]
            /\ passes_left' = passes_left - 1
       ELSE /\ mon_pc' = [mon_pc EXCEPT !["worker"] = "sleep"]
            /\ UNCHANGED passes_left
    /\ checked' = [checked EXCEPT !["worker"] = NoChecks]
    /\ UNCHANGED <<current_snapshot_, snapshot_mutex_, mon_clock, llm_loaded_,
                   llm_is_loaded, infer_result, sample, health_left, health,
                   mgr_alerts, tasks, published>>
    /\ UNCHANGED notMon

\* the detached thread of create_smart_alert(), lines 414-453: create the
\* secondary alert
AnalysisThread ==
    /\ \E task \in tasks :
          /\ mgr_alerts' = MgrCreate(mgr_alerts, "INFO", "AI_ANALYSIS",
                                     <<"AI analysis: ", task.title>>,
                                     AiMetadata(task.alert_id)).alerts
          /\ tasks' = tasks \ {task}
    /\ UNCHANGED <<current_snapshot_, snapshot_mutex_, mon_clock, llm_loaded_,
                   llm_is_loaded, infer_result, mon_pc, sample, passes_left,
                   health_left, health, published, checked>>
    /\ UNCHANGED notMon

\* a handler that never takes the snapshot for uninitialized
NeverUninitialized(snapshot) == FALSE

\* handle_health(), line 122: snapshot.timestamp == TimePoint{}
SeemsUninitialized(snapshot) == snapshot.timestamp = Epoch

\* handle_health(), lines 119-125: get_snapshot() copies the snapshot under
\* the mutex; an epoch timestamp leads into force_check()
HandleHealth ==
    /\ mon_pc["handler"] = "idle"
    /\ health_left > 0
    /\ SnapshotMutexFree
    /\ health_left' = health_left - 1
    /\ health' = [seen |-> current_snapshot_,
                  forced |-> FALSE,
                  snapshot |-> current_snapshot_,
                  answered |-> FALSE]
    /\ mon_pc' = [mon_pc EXCEPT !["handler"] =
                     IF SeemsUninitialized(current_snapshot_)
                     THEN "run_checks" ELSE "respond"]
    /\ UNCHANGED <<current_snapshot_, snapshot_mutex_, mon_clock, llm_loaded_,
                   llm_is_loaded, infer_result, sample, passes_left,
                   mgr_alerts, tasks, published, checked>>
    /\ UNCHANGED notMon

\* force_check(), lines 92-93: after run_checks(), copy the snapshot under
\* the mutex
ForceCheckReturn ==
    /\ mon_pc["handler"] = "checked"
    /\ SnapshotMutexFree
    /\ health' = [health EXCEPT !.snapshot = current_snapshot_]
    /\ checked' = [checked EXCEPT !["handler"] = NoChecks]
    /\ mon_pc' = [mon_pc EXCEPT !["handler"] = "respond"]
    /\ UNCHANGED <<current_snapshot_, snapshot_mutex_, mon_clock, llm_loaded_,
                   llm_is_loaded, infer_result, sample, passes_left,
                   health_left, mgr_alerts, tasks, published>>
    /\ UNCHANGED notMon

\* handle_health(), lines 127-132: the engine's state replaces the mirrored
\* one, and the snapshot is the response
HealthRespond ==
    /\ mon_pc["handler"] = "respond"
    /\ health' = [health EXCEPT !.snapshot.llm_loaded = llm_is_loaded,
                                !.answered = TRUE]
    /\ mon_pc' = [mon_pc EXCEPT !["handler"] = "idle"]
    /\ UNCHANGED <<current_snapshot_, snapshot_mutex_, mon_clock, llm_loaded_,
                   llm_is_loaded, infer_result, sample, passes_left,
                   health_left, mgr_alerts, tasks, published, checked>>
    /\ UNCHANGED notMon

MonNext ==
    \/ \E t \in MonThreads : RunChecksBegin(t)
    \/ \E t \in MonThreads : RunChecksPublish(t)
    \/ \E t \in MonThreads : CheckDisk(t)
    \/ \E t \in MonThreads : CheckMem(t)
    \/ \E t \in MonThreads : CheckSecurity(t)
    \/ MonitorLoop
    \/ AnalysisThread
    \/ HandleHealth
    \/ ForceCheckReturn
    \/ HealthRespond

(***************************************************************************)
(* SystemMonitor: set_llm_state() against the locked block of run_checks() *)
(*                                                                         *)
(* llm_loaded_ and llm_queue_size_ are atomics, llm_model_name_ is guarded *)
(* by llm_mutex_.  The handlers of llm.load and llm.unload call            *)
(* set_llm_state() on the accept thread; the worker copies the three       *)
(* members into current_snapshot_ while it holds snapshot_mutex_.          *)
(***************************************************************************)
\* the members as the constructor leaves them
InitialLlm == [llm_loaded |-> FALSE, llm_model_name |-> "",
               inference_queue_size |-> 0]

\* the states set_llm_state() is called with
LlmArgs ==
    {[llm_loaded |-> TRUE, llm_model_name |-> "m1", inference_queue_size |-> 1],
     [llm_loaded |-> TRUE, llm_model_name |-> "m2", inference_queue_size |-> 0],
     InitialLlm}

LlmInit ==
    /\ llm_queue_size_ = InitialLlm.inference_queue_size
    /\ llm_model_name_ = InitialLlm.llm_model_name
    /\ llm_mutex_ = "none"
    /\ set_pc = "idle"
    /\ set_arg = InitialLlm
    /\ sets_left = MaxSets
    /\ pass_pc = "idle"
    /\ snap_llm = InitialLlm
    /\ llm_passes_left = MaxLlmPasses
    /\ llm_calls = {}
    /\ llm_published = {}

\* a specification that follows neither set_llm_state() nor the LLM fields
LlmIdle ==
    /\ llm_queue_size_ = InitialLlm.inference_queue_size
    /\ llm_model_name_ = InitialLlm.llm_model_name
    /\ llm_mutex_ = "none"
    /\ set_pc = "idle"
    /\ set_arg = InitialLlm
    /\ sets_left = 0
    /\ pass_pc = "idle"
    /\ snap_llm = InitialLlm
    /\ llm_passes_left = 0
    /\ llm_calls = {}
    /\ llm_published = {}

\* the monitor's variables these steps leave alone
llmMonRest == <<current_snapshot_, snapshot_mutex_, mon_clock, llm_is_loaded,
                infer_result, mon_pc, sample, passes_left, health_left,
                health, mgr_alerts, tasks, published, checked>>

notLlm == <<rlvars, ipcvars, amvars, rtvars, llmMonRest, cfgvars, aptvars,
            loopvars, regvars, lifevars>>

\* set_llm_state(), line 97: llm_loaded_ = loaded
SetLoaded(arg) ==
    /\ set_pc = "idle"
    /\ sets_left > 0
    /\ sets_left' = sets_left - 1
    /\ set_arg' = arg
    /\ llm_calls' = llm_calls \cup {arg}
    /\ llm_loaded_' = arg.llm_loaded
    /\ set_pc' = "queue"
    /\ UNCHANGED <<llm_queue_size_, llm_model_name_, llm_mutex_, pass_pc,
                   snap_llm, llm_passes_left, llm_published>>
    /\ UNCHANGED notLlm

\* set_llm_state(), line 98: llm_queue_size_ = queue_size
SetQueue ==
    /\ set_pc = "queue"
    /\ llm_queue_size_' = set_arg.inference_queue_size
    /\ set_pc' = "lock"
    /\ UNCHANGED <<llm_loaded_, llm_model_name_, llm_mutex_, set_arg,
                   sets_left, pass_pc, snap_llm, llm_passes_left, llm_calls,
                   llm_published>>
    /\ UNCHANGED notLlm

\* set_llm_state(), line 100: std::lock_guard lock(llm_mutex_)
SetLock ==
    /\ set_pc = "lock"
    /\ llm_mutex_ = "none"
    /\ llm_mutex_' = "handler"
    /\ set_pc' = "name"
    /\ UNCHANGED <<llm_loaded_, llm_queue_size_, llm_model_name_, set_arg,
                   sets_left, pass_pc, snap_llm, llm_passes_left, llm_calls,
                   llm_published>>
    /\ UNCHANGED notLlm

\* set_llm_state(), lines 101-102: llm_model_name_ = model_name; the lock
\* is released on return
SetName ==
    /\ set_pc = "name"
    /\ llm_model_name_' = set_arg.llm_model_name
    /\ llm_mutex_' = "none"
    /\ set_pc' = "idle"
    /\ UNCHANGED <<llm_loaded_, llm_queue_size_, set_arg, sets_left, pass_pc,
                   snap_llm, llm_passes_left, llm_calls, llm_published>>
    /\ UNCHANGED notLlm

\* run_checks(), line 197: current_snapshot_.llm_loaded = llm_loaded_.load()
PassReadLoaded ==
    /\ pass_pc = "idle"
    /\ llm_passes_left > 0
    /\ llm_passes_left' = llm_passes_left - 1
    /\ snap_llm' = [snap_llm EXCEPT !.llm_loaded = llm_loaded_]
    /\ pass_pc' = "queue"
    /\ UNCHANGED <<llm_loaded_, llm_queue_size_, llm_model_name_, llm_mutex_,
                   set_pc, set_arg, sets_left, llm_calls, llm_published>>
    /\ UNCHANGED notLlm

\* run_checks(), line 198: inference_queue_size = llm_queue_size_.load()
PassReadQueue ==
    /\ pass_pc = "queue"
    /\ snap_llm' = [snap_llm EXCEPT !.inference_queue_size = llm_queue_size_]
    /\ pass_pc' = "lock"
    /\ UNCHANGED <<llm_loaded_, llm_queue_size_, llm_model_name_, llm_mutex_,
                   set_pc, set_arg, sets_left, llm_passes_left, llm_calls,
                   llm_published>>
    /\ UNCHANGED notLlm

\* run_checks(), line 201: std::lock_guard llm_lock(llm_mutex_)
PassLock ==
    /\ pass_pc = "lock"
    /\ llm_mutex_ = "none"
    /\ llm_mutex_' = "worker"
    /\ pass_pc' = "name"
    /\ UNCHANGED <<llm_loaded_, llm_queue_size_, llm_model_name_, set_pc,
                   set_arg, sets_left, snap_llm, llm_passes_left, llm_calls,
                   llm_published>>
    /\ UNCHANGED notLlm

\* run_checks(), lines 202-203: llm_model_name = llm_model_name_, and the
\* inner lock is released
PassReadName ==
    /\ pass_pc = "name"
    /\ snap_llm' = [snap_llm EXCEPT !.llm_model_name = llm_model_name_]
    /\ llm_mutex_' = "none"
    /\ pass_pc' = "publish"
    /\ UNCHANGED <<llm_loaded_, llm_queue_size_, llm_model_name_, set_pc,
                   set_arg, sets_left, llm_passes_left, llm_calls,
                   llm_published>>
    /\ UNCHANGED notLlm

\* run_checks(), line 210: snapshot_mutex_ is released, readers see the
\* snapshot
PassPublish ==
    /\ pass_pc = "publish"
    /\ llm_published' = llm_published \cup {snap_llm}
    /\ pass_pc' = "idle"
    /\ UNCHANGED <<llm_loaded_, llm_queue_size_, llm_model_name_, llm_mutex_,
                   set_pc, set_arg, sets_left, snap_llm, llm_passes_left,
                   llm_calls>>
    /\ UNCHANGED notLlm

LlmNext ==
    \/ \E arg \in LlmArgs : SetLoaded(arg)
    \/ SetQueue
    \/ SetLock
    \/ SetName
    \/ PassReadLoaded
    \/ PassReadQueue
    \/ PassLock
    \/ PassReadName
    \/ PassPublish

(***************************************************************************)
(* The AlertManager's lifetime                                             *)
(*                                                                         *)
(* The manager is held through std::shared_ptr by the SystemMonitor        *)
(* (alert_manager_) and by the alert handlers registered with the server   *)
(* (the lambdas' captures); the last holder's release destroys it.  A      *)
(* detached analysis thread holds the raw pointer alert_manager_.get().    *)
(***************************************************************************)
Holders == {"monitor", "handlers"}

\* alert_mgr->create() on a pointer to a destroyed object is undefined: what
\* a build may do with it
DanglingOutcomes == {"crashes", "writes to freed memory", "seems to work"}

LifeInit ==
    /\ mgr_holders = Holders
    /\ mgr_destroyed = FALSE
    /\ life_passes_left = MaxLifePasses
    /\ life_tasks = 0
    /\ life_created = 0
    /\ dangling_use = {}

\* a specification that does not follow the manager's lifetime
LifeIdle ==
    /\ mgr_holders = Holders
    /\ mgr_destroyed = FALSE
    /\ life_passes_left = 0
    /\ life_tasks = 0
    /\ life_created = 0
    /\ dangling_use = {}

notLife == <<rlvars, ipcvars, amvars, rtvars, monvars, cfgvars, aptvars,
             loopvars, regvars, llmvars>>

\* std::shared_ptr: the release of the last holder runs ~AlertManager
ReleaseBy(h) ==
    /\ h \in mgr_holders
    /\ mgr_holders' = mgr_holders \ {h}
    /\ mgr_destroyed' = (mgr_holders \ {h} = {})

\* create_smart_alert(), lines 401-414 and 453: a pass of the monitor
\* creates the primary alert, takes alert_manager_.get() and starts the
\* detached thread with that pointer
LifePass ==
    /\ "monitor" \in mgr_holders
    /\ life_passes_left > 0
    /\ life_passes_left' = life_passes_left - 1
    /\ life_tasks' = life_tasks + 1
    /\ UNCHANGED <<mgr_holders, mgr_destroyed, life_created, dangling_use>>
    /\ UNCHANGED notLife

\* ~SystemMonitor: stop() joins the worker thread, not the detached ones;
\* the member alert_manager_ is released
ReleaseMonitor ==
    /\ ReleaseBy("monitor")
    /\ UNCHANGED <<life_passes_left, life_tasks, life_created, dangling_use>>
    /\ UNCHANGED notLife

\* ~IPCServer: the registered handlers and the shared_ptr copies their
\* lambdas captured are destroyed
ReleaseHandlers ==
    /\ ReleaseBy("handlers")
    /\ UNCHANGED <<life_passes_left, life_tasks, life_created, dangling_use>>
    /\ UNCHANGED notLife

\* the detached thread finds the object behind its raw pointer alive only
\* when a holder is left
ManagerAlive == ~mgr_destroyed

\* the detached thread, lines 414-453: alert_mgr->create(...)
LifeTaskRun ==
    /\ life_tasks > 0
    /\ life_tasks' = life_tasks - 1
    /\ IF ManagerAlive
       THEN /\ life_created' = life_created + 1
            /\ UNCHANGED dangling_use
       ELSE /\ \E outcome \in DanglingOutcomes :
                  dangling_use' = dangling_use \cup {outcome}
            /\ UNCHANGED life_created
    /\ UNCHANGED <<mgr_holders, mgr_destroyed, life_passes_left>>
    /\ UNCHANGED notLife

LifeNext == LifePass \/ ReleaseMonitor \/ ReleaseHandlers \/ LifeTaskRun

(***************************************************************************)
(* IPCServer: the handler registry                                         *)
(*                                                                         *)
(* handlers_ holds the registered methods and handler_of the handler each  *)
(* one maps to.  The accept thread dispatches requests, the main thread    *)
(* registers handlers, and the handler "h1" calls register_handler() for   *)
(* the method it was invoked for.                                          *)
(***************************************************************************)
RegMethods == {"ping", "status"}

HandlerIds == {"h1", "h2", "h3"}

NoHandler == "none"

\* the handler "h1" re-registers the method of its request with "h2" before
\* it returns; the other handlers only return a response
CallsBack(h) == h = "h1"

Replacement == "h2"

FreeMutex == [shared |-> {}, excl |-> "none"]

\* std::shared_lock: granted while no thread holds the mutex exclusively
CanLockShared(mu) == mu.excl = "none"

\* std::unique_lock: granted while no thread holds the mutex in either mode
CanLockExclusive(mu) == mu.excl = "none" /\ mu.shared = {}

RegInit ==
    /\ handler_of = [m \in RegMethods |-> NoHandler]
    /\ handlers_mutex_ = FreeMutex
    /\ dsp_pc = "idle"
    /\ dsp_req = "none"
    /\ handler_loc = NoHandler
    /\ dispatches_left = MaxDispatches
    /\ reg_pc = "idle"
    /\ reg_arg = <<"none", NoHandler>>
    /\ registers_left = MaxRegisters
    /\ registered = [m \in RegMethods |-> NoHandler]
    /\ invoked_log = <<>>

\* a specification that dispatches nothing through the registry's lock
RegIdle ==
    /\ handler_of = [m \in RegMethods |-> NoHandler]
    /\ handlers_mutex_ = FreeMutex
    /\ dsp_pc = "idle"
    /\ dsp_req = "none"
    /\ handler_loc = NoHandler
    /\ dispatches_left = 0
    /\ reg_pc = "idle"
    /\ reg_arg = <<"none", NoHandler>>
    /\ registers_left = 0
    /\ registered = [m \in RegMethods |-> NoHandler]
    /\ invoked_log = <<>>

\* the server's variables the registry steps leave alone
ipcRest == <<socket_path_len, running_, server_fd_, sock_file, sock_shut,
             backlog, active_connections_, connections_served_, acc_pc, cur,
             main_pc, stop_inflight>>

notReg == <<rlvars, ipcRest, amvars, rtvars, monvars, cfgvars, aptvars,
            loopvars, llmvars, lifevars>>

\* handlers_[method] = handler
StoreHandler(m, h) ==
    /\ handlers_' = handlers_ \cup {m}
    /\ handler_of' = [handler_of EXCEPT ![m] = h]
    /\ registered' = [registered EXCEPT ![m] = h]

\* dispatch(), line 363: std::shared_lock lock(handlers_mutex_)
DispatchLock(m) ==
    /\ dsp_pc = "idle"
    /\ dispatches_left > 0
    /\ CanLockShared(handlers_mutex_)
    /\ handlers_mutex_' = [handlers_mutex_ EXCEPT !.shared = @ \cup {"acc"}]
    /\ dispatches_left' = dispatches_left - 1
    /\ dsp_req' = m
    /\ dsp_pc' = "find"
    /\ UNCHANGED <<handlers_, handler_of, handler_loc, reg_pc, reg_arg,
                   registers_left, registered, invoked_log>>
    /\ UNCHANGED notReg

\* dispatch(), lines 365-372: handlers_.find(method); an unknown method
\* returns METHOD_NOT_FOUND, which releases the lock, a known one has its
\* handler copied
DispatchFind ==
    /\ dsp_pc = "find"
    /\ IF dsp_req \notin handlers_
       THEN /\ handlers_mutex_' =
                  [handlers_mutex_ EXCEPT !.shared = @ \ {"acc"}]
            /\ dsp_pc' = "idle"
            /\ UNCHANGED handler_loc
       ELSE /\ handler_loc' = handler_of[dsp_req]
            /\ dsp_pc' = "unlock"
            /\ UNCHANGED handlers_mutex_
    /\ UNCHANGED <<handlers_, handler_of, dsp_req, dispatches_left, reg_pc,
                   reg_arg, registers_left, registered, invoked_log>>
    /\ UNCHANGED notReg

\* a dispatch() whose lock lives as long as the function: the handler is
\* invoked with the shared lock held
KeepSharedLock ==
    /\ dsp_pc = "unlock"
    /\ dsp_pc' = "invoke"
    /\ UNCHANGED <<handlers_, handler_of, handlers_mutex_, dsp_req,
                   handler_loc, dispatches_left, reg_pc, reg_arg,
                   registers_left, registered, invoked_log>>
    /\ UNCHANGED notReg

\* dispatch(), line 373: the block ends, the shared lock is released
DispatchUnlock ==
    /\ dsp_pc = "unlock"
    /\ handlers_mutex_' = [handlers_mutex_ EXCEPT !.shared = @ \ {"acc"}]
    /\ dsp_pc' = "invoke"
    /\ UNCHANGED <<handlers_, handler_of, dsp_req, handler_loc,
                   dispatches_left, reg_pc, reg_arg, registers_left,
                   registered, invoked_log>>
    /\ UNCHANGED notReg

\* dispatch(), lines 378-381: handler(request); a handler that only answers
\* returns, one that calls back goes on to register_handler()
DispatchInvoke ==
    /\ dsp_pc = "invoke"
    /\ invoked_log' = Append(invoked_log, <<dsp_req, handler_loc>>)
    /\ dsp_pc' = IF CallsBack(handler_loc) THEN "h_lock" ELSE "idle"
    /\ UNCHANGED <<handlers_, handler_of, handlers_mutex_, dsp_req,
                   handler_loc, dispatches_left, reg_pc, reg_arg,
                   registers_left, registered>>
    /\ UNCHANGED notReg

\* register_handler() called by the handler, line 156: std::unique_lock
HandlerRegisterLock ==
    /\ dsp_pc = "h_lock"
    /\ CanLockExclusive(handlers_mutex_)
    /\ handlers_mutex_' = [handlers_mutex_ EXCEPT !.excl = "acc"]
    /\ dsp_pc' = "h_store"
    /\ UNCHANGED <<handlers_, handler_of, dsp_req, handler_loc,
                   dispatches_left, reg_pc, reg_arg, registers_left,
                   registered, invoked_log>>
    /\ UNCHANGED notReg

\* register_handler() called by the handler, lines 157-159: the store, the
\* release of the lock; the handler and dispatch() return
HandlerRegisterStore ==
    /\ dsp_pc = "h_store"
    /\ StoreHandler(dsp_req, Replacement)
    /\ handlers_mutex_' = [handlers_mutex_ EXCEPT !.excl = "none"]
    /\ dsp_pc' = "idle"
    /\ UNCHANGED <<dsp_req, handler_loc, dispatches_left, reg_pc, reg_arg,
                   registers_left, invoked_log>>
    /\ UNCHANGED notReg

\* register_handler(m, h) called by the main thread, line 156
MainRegisterLock(m, h) ==
    /\ reg_pc = "idle"
    /\ registers_left > 0
    /\ CanLockExclusive(handlers_mutex_)
    /\ handlers_mutex_' = [handlers_mutex_ EXCEPT !.excl = "main"]
    /\ registers_left' = registers_left - 1
    /\ reg_arg' = <<m, h>>
    /\ reg_pc' = "store"
    /\ UNCHANGED <<handlers_, handler_of, dsp_pc, dsp_req, handler_loc,
                   dispatches_left, registered, invoked_log>>
    /\ UNCHANGED notReg

\* register_handler(m, h) called by the main thread, lines 157-159
MainRegisterStore ==
    /\ reg_pc = "store"
    /\ StoreHandler(reg_arg[1], reg_arg[2])
    /\ handlers_mutex_' = [handlers_mutex_ EXCEPT !.excl = "none"]
    /\ reg_pc' = "idle"
    /\ UNCHANGED <<dsp_pc, dsp_req, handler_loc, dispatches_left, reg_arg,
                   registers_left, invoked_log>>
    /\ UNCHANGED notReg

\* the steps of the accept thread inside dispatch()
DispatchStep ==
    \/ DispatchFind
    \/ DispatchUnlock
    \/ DispatchInvoke
    \/ HandlerRegisterLock
    \/ HandlerRegisterStore

RegNext ==
    \/ \E m \in RegMethods : DispatchLock(m)
    \/ DispatchStep
    \/ \E m \in RegMethods : \E h \in {"h1", "h3"} : MainRegisterLock(m, h)
    \/ MainRegisterStore

(***************************************************************************)
(* create_smart_alert() over the manager with its dedup window             *)
(*                                                                         *)
(* Sample passes that find the same breach call create_smart_alert() while *)
(* the wall clock moves on; the detached threads they start run when the   *)
(* scheduler lets them.                                                    *)
(***************************************************************************)
SmartIds == {"a1", "a2", "a3"}

\* the breach every pass finds: check_thresholds(), lines 235-249
SmartBreach == <<"CRITICAL", "DISK_USAGE", "Critical disk usage">>

\* ai_metadata["parent_alert_id"] = alert_id, line 429
ParentMetadata(alert_id) == <<"parent_alert_id", alert_id>>

\* create() with the metadata the caller gives: evict, then a key still
\* present returns the ID its alert was admitted with; otherwise insert
\* under a generated ID and record key |-> now
CreateWith(sev, ty, title, meta, id1) ==
    LET now == wall_now
        k == AlertHash(sev, ty, title)
        recent == EvictOld(recent_alerts_, now)
        ins == StoreInsert(rows, [NewAlert(id1, sev, ty, title, now)
                                     EXCEPT !.metadata = meta])
    IN  IF IsDuplicate(recent, k)
        THEN /\ recent_alerts_' = recent
             /\ last' = [Call("create") EXCEPT !.id = issued[k].id,
                                               !.dup = TRUE]
             /\ UNCHANGED <<rows, issued>>
        ELSE /\ ins.ok
             /\ rows' = ins.rows
             /\ recent_alerts_' =
                    [x \in DOMAIN recent \cup {k} |->
                        IF x = k THEN now ELSE recent[x]]
             /\ issued' =
                    [x \in DOMAIN issued \cup {k} |->
                        IF x = k THEN [at |-> now, id |-> id1] ELSE issued[x]]
             /\ last' = [Call("create") EXCEPT
                            !.id = id1,
                            !.notified = NotifyCallbacks(callbacks_)]

\* the monitor's variables the steps below leave alone
smartRest == <<current_snapshot_, snapshot_mutex_, mon_clock, llm_loaded_,
               llm_is_loaded, infer_result, mon_pc, sample, health_left,
               health, mgr_alerts, published, checked>>

notSmart == <<rlvars, ipcvars, rtvars, cfgvars, aptvars, loopvars, regvars,
              llmvars, lifevars>>

\* the engine is loaded; no thread of the monitor is followed step by step
SmartMonInit ==
    /\ current_snapshot_ = EmptySnapshot
    /\ snapshot_mutex_ = "none"
    /\ mon_clock = Epoch
    /\ llm_loaded_ = TRUE
    /\ llm_is_loaded = TRUE
    /\ infer_result = "success"
    /\ mon_pc = [t \in MonThreads |-> "off"]
    /\ sample = [t \in MonThreads |-> NoSample]
    /\ passes_left = MaxSmartPasses
    /\ health_left = 0
    /\ health = NoHealth
    /\ mgr_alerts = {}
    /\ tasks = {}
    /\ published = {}
    /\ checked = [t \in MonThreads |-> NoChecks]
    /\ enable_ai_alerts = TRUE
    /\ enable_apt_monitor = TRUE
    /\ readings = {}
    /\ AptInit
    /\ mon_running_ = FALSE
    /\ check_requested_ = FALSE
    /\ loop_now = 0
    /\ last_check = 0
    /\ now_loc = 0
    /\ trig_clock = NoTrigger

\* create_smart_alert(), lines 393-454, called by a pass for the breach:
\* create the primary alert; a non-empty ID and a loaded engine start a
\* detached thread that holds the ID and the title
SmartPass ==
    /\ passes_left > 0
    /\ passes_left' = passes_left - 1
    /\ \E id1 \in SmartIds :
          CreateWith(SmartBreach[1], SmartBreach[2], SmartBreach[3],
                     "ai_enhanced=pending", id1)
    /\ tasks' = IF last'.id # NoId /\ llm_is_loaded
                THEN tasks \cup {[alert_id |-> last'.id,
                                  severity |-> SmartBreach[1],
                                  type |-> SmartBreach[2],
                                  title |-> SmartBreach[3]]}
                ELSE tasks
    /\ UNCHANGED <<wall_now, callbacks_, smartRest>>
    /\ UNCHANGED notSmart

\* the detached thread, lines 414-453: create(INFO, AI_ANALYSIS,
\* "AI analysis: " + title, ..., ai_metadata)
SmartAnalysis ==
    /\ \E task \in tasks :
          /\ \E id1 \in SmartIds :
                CreateWith("INFO", "AI_ANALYSIS",
                           <<"AI analysis: ", task.title>>,
                           ParentMetadata(task.alert_id), id1)
          /\ tasks' = tasks \ {task}
    /\ UNCHANGED <<wall_now, callbacks_, passes_left, smartRest>>
    /\ UNCHANGED notSmart

SmartNext == AMTick \/ SmartPass \/ SmartAnalysis

(***************************************************************************)
(* Specifications                                                          *)
(***************************************************************************)
\* the rate limiter with its threads; the server and the manager idle
InitRL == RLInit /\ IPCIdle /\ AMInit /\ RTIdle /\ MonIdle /\ RegIdle /\ LlmIdle /\ LifeIdle

SpecRL == InitRL /\ [][RLNext]_vars

\* the server with its accept thread and its clients
InitIPC == RLInit /\ IPCInit /\ AMInit /\ RTIdle /\ MonIdle /\ RegIdle /\ LlmIdle /\ LifeIdle

SpecIPC == InitIPC /\ [][IPCNext]_vars

\* the alert manager over its store
Init == RLInit /\ IPCIdle /\ AMInit /\ RTIdle /\ MonIdle /\ RegIdle /\ LlmIdle /\ LifeIdle

Next == AMNext

Spec == Init /\ [][Next]_vars

\* the manager opened on a database that holds up to three alerts, taking
\* acknowledge_all() calls and alerts.ack requests
InitAck == RLInit /\ IPCIdle /\ AckInit /\ RTIdle /\ MonIdle /\ RegIdle /\ LlmIdle /\ LifeIdle

SpecAck == InitAck /\ [][AckNext]_vars

\* the store alone: one alert inserted and read back
InitStore == RLInit /\ IPCIdle /\ AMInit /\ RTInit /\ MonIdle /\ RegIdle /\ LlmIdle /\ LifeIdle

SpecStore == InitStore /\ [][RTNext]_vars

\* the monitor's worker, a health request and the analysis threads
(***************************************************************************)
(* SystemMonitor::monitor_loop, trigger_check and stop, step by step       *)
(***************************************************************************)
\* check_interval_, in seconds
check_interval_ == 2

\* the steady clock is followed up to this many seconds
MaxLoopNow == 5

\* a sleep_for(1 s) may return this many seconds late
MaxOversleep == 1

\* monitor_loop's local now before the loop has declared it
NoNow == -1

\* what a step of monitor_loop() between two passes leaves alone
LoopFrame ==
    /\ UNCHANGED <<current_snapshot_, snapshot_mutex_, mon_clock, llm_loaded_,
                   llm_is_loaded, infer_result, sample, passes_left,
                   health_left, health, mgr_alerts, tasks, published>>
    /\ UNCHANGED notLoop

\* monitor_loop(), lines 112-114 and 127: run_checks() has returned;
\* last_check is steady_clock::now() after the initial pass, the loop's now
\* after a later one
LoopPassDone ==
    /\ mon_pc["worker"] = "checked"
    /\ last_check' = IF now_loc = NoNow THEN loop_now ELSE now_loc
    /\ checked' = [checked EXCEPT !["worker"] = NoChecks]
    /\ mon_pc' = [mon_pc EXCEPT !["worker"] = "loop_top"]
    /\ UNCHANGED <<mon_running_, check_requested_, loop_now, now_loc,
                   trig_clock>>
    /\ LoopFrame

\* monitor_loop(), line 116: while (running_)
LoopTop ==
    /\ mon_pc["worker"] = "loop_top"
    /\ mon_pc' = [mon_pc EXCEPT !["worker"] =
                     IF mon_running_ THEN "sleeping" ELSE "ended"]
    /\ UNCHANGED <<loopvars, checked>>
    /\ LoopFrame

\* monitor_loop(), line 118: sleep_for(1 s) returns after a second or more
LoopSleep ==
    /\ mon_pc["worker"] = "sleeping"
    /\ \E d \in 1 .. (1 + MaxOversleep) :
          /\ loop_now + d <= MaxLoopNow
          /\ loop_now' = loop_now + d
    /\ mon_pc' = [mon_pc EXCEPT !["worker"] = "woke"]
    /\ UNCHANGED <<mon_running_, check_requested_, last_check, now_loc,
                   trig_clock, checked>>
    /\ LoopFrame

\* a test that lets a pass begin whatever time has elapsed
AnyElapsed(elapsed) == elapsed >= 0

\* monitor_loop(), line 124: elapsed >= check_interval_
IntervalElapsed(elapsed) == elapsed >= check_interval_

\* monitor_loop(), lines 120-124: now = steady_clock::now(), elapsed = now -
\* last_check in whole seconds; the first operand of the || decides alone
\* when it is true
LoopTestInterval ==
    /\ mon_pc["worker"] = "woke"
    /\ now_loc' = loop_now
    /\ mon_pc' = [mon_pc EXCEPT !["worker"] =
                     IF IntervalElapsed(loop_now - last_check)
                     THEN "clear" ELSE "test_flag"]
    /\ UNCHANGED <<mon_running_, check_requested_, loop_now, last_check,
                   trig_clock, checked>>
    /\ LoopFrame

\* monitor_loop(), line 124: || check_requested_
LoopTestFlag ==
    /\ mon_pc["worker"] = "test_flag"
    /\ mon_pc' = [mon_pc EXCEPT !["worker"] =
                     IF check_requested_ THEN "clear" ELSE "loop_top"]
    /\ UNCHANGED <<loopvars, checked>>
    /\ LoopFrame

\* monitor_loop(), lines 125-126: check_requested_ = false; run_checks()
\* is entered
LoopClear ==
    /\ mon_pc["worker"] = "clear"
    /\ check_requested_' = FALSE
    /\ mon_pc' = [mon_pc EXCEPT !["worker"] = "run_checks"]
    /\ UNCHANGED <<mon_running_, loop_now, last_check, now_loc, trig_clock,
                   checked>>
    /\ LoopFrame

\* trigger_check(), lines 84-86, called by some other thread
TriggerCheck ==
    /\ mon_running_
    /\ loop_now < MaxLoopNow
    /\ check_requested_' = TRUE
    /\ trig_clock' = mon_clock
    /\ UNCHANGED <<mon_running_, loop_now, last_check, now_loc, mon_pc,
                   checked>>
    /\ LoopFrame

\* stop(), lines 52-57: running_ = false (the join is not followed)
MonStop ==
    /\ mon_running_
    /\ mon_running_' = FALSE
    /\ UNCHANGED <<check_requested_, loop_now, last_check, now_loc,
                   trig_clock, mon_pc, checked>>
    /\ LoopFrame

\* start() has run on a machine whose statistics stay as they are: the
\* worker thread is about to make its initial pass
LoopMonInit ==
    /\ current_snapshot_ = EmptySnapshot
    /\ snapshot_mutex_ = "none"
    /\ mon_clock = Epoch
    /\ llm_is_loaded = FALSE
    /\ infer_result = "failure"
    /\ llm_loaded_ = FALSE
    /\ mon_pc = [t \in MonThreads |-> IF t = "worker" THEN "run_checks" ELSE "off"]
    /\ sample = [t \in MonThreads |-> NoSample]
    /\ passes_left = 0
    /\ health_left = 0
    /\ health = NoHealth
    /\ mgr_alerts = {}
    /\ tasks = {}
    /\ published = {}
    /\ checked = [t \in MonThreads |-> NoChecks]
    /\ enable_ai_alerts = TRUE
    /\ enable_apt_monitor = TRUE
    /\ readings \in {{s} : s \in Samples}
    /\ AptInit
    /\ mon_running_ = TRUE
    /\ check_requested_ = FALSE
    /\ loop_now = 0
    /\ last_check = 0
    /\ now_loc = NoNow
    /\ trig_clock = NoTrigger

\* the steps of the worker thread
LoopWorker ==
    \/ RunChecksBegin("worker")
    \/ RunChecksPublish("worker")
    \/ CheckDisk("worker")
    \/ CheckMem("worker")
    \/ CheckSecurity("worker")
    \/ LoopPassDone
    \/ LoopTop
    \/ LoopSleep
    \/ LoopTestInterval
    \/ LoopTestFlag
    \/ LoopClear

LoopNext ==
    \/ LoopWorker
    \/ TriggerCheck
    \/ MonStop

InitLoop == RLInit /\ IPCIdle /\ AMInit /\ RTIdle /\ LoopMonInit /\ RegIdle /\ LlmIdle /\ LifeIdle

\* the worker is a std::thread that the scheduler keeps running; its sleep
\* returns and run_checks() returns
SpecLoop == InitLoop /\ [][LoopNext]_vars /\ WF_vars(LoopWorker)

\* a monitor without an engine, with the package monitor enabled or not, on
\* a machine whose statistics stay as they are; the worker makes AptPasses
\* passes while one health request arrives
AptPasses == 11

AptMonInit ==
    /\ current_snapshot_ = EmptySnapshot
    /\ snapshot_mutex_ = "none"
    /\ mon_clock = Epoch
    /\ llm_is_loaded = FALSE
    /\ infer_result = "failure"
    /\ llm_loaded_ = FALSE
    /\ mon_pc = [t \in MonThreads |-> IF t = "worker" THEN "run_checks" ELSE "idle"]
    /\ sample = [t \in MonThreads |-> NoSample]
    /\ passes_left = AptPasses - 1
    /\ health_left = MaxHealth
    /\ health = NoHealth
    /\ mgr_alerts = {}
    /\ tasks = {}
    /\ published = {}
    /\ checked = [t \in MonThreads |-> NoChecks]
    /\ enable_ai_alerts = TRUE
    /\ enable_apt_monitor \in BOOLEAN
    /\ readings \in {{s} : s \in Samples}
    /\ AptInit
    /\ LoopUnused

AptNext ==
    \/ \E t \in MonThreads : RunChecksBegin(t)
    \/ \E t \in MonThreads : RunChecksPublish(t)
    \/ \E t \in MonThreads : CheckDisk(t)
    \/ \E t \in MonThreads : CheckMem(t)
    \/ \E t \in MonThreads : CheckSecurity(t)
    \/ MonitorLoop
    \/ HandleHealth
    \/ ForceCheckReturn
    \/ HealthRespond

InitApt == RLInit /\ IPCIdle /\ AMInit /\ RTIdle /\ AptMonInit /\ RegIdle /\ LlmIdle /\ LifeIdle

SpecApt == InitApt /\ [][AptNext]_vars

\* the accept thread is a thread of its own that the scheduler keeps running:
\* inside handle_client() it blocks on nothing once recv() has returned data
\* (the handlers of the model return or throw)
HandleClientStep ==
    \/ HandleRateLimit
    \/ HandleParse
    \/ HandleDispatch
    \/ HandlerReturns
    \/ HandleSend
    \/ HandleClose

SpecIPCLive == InitIPC /\ [][IPCNext]_vars /\ WF_vars(HandleClientStep)

InitMon == RLInit /\ IPCIdle /\ AMInit /\ RTIdle /\ MonInit /\ RegIdle /\ LlmIdle /\ LifeIdle

\* the passes that call create_smart_alert() for one breach, the manager and
\* the detached threads
InitSmart == RLInit /\ IPCIdle /\ AMInit /\ RTIdle /\ SmartMonInit /\ RegIdle /\ LlmIdle /\ LifeIdle

SpecSmart == InitSmart /\ [][SmartNext]_vars

\* set_llm_state() calls of the handlers against the worker's passes
InitLlm ==
    RLInit /\ IPCIdle /\ AMInit /\ RTIdle /\ MonIdle /\ RegIdle /\ LlmInit
        /\ LifeIdle

SpecLlm == InitLlm /\ [][LlmNext]_vars

\* the passes that start analysis threads while the daemon shuts down
InitLife ==
    RLInit /\ IPCIdle /\ AMInit /\ RTIdle /\ MonIdle /\ RegIdle /\ LlmIdle
        /\ LifeInit

SpecLife == InitLife /\ [][LifeNext]_vars

\* the registry with the accept thread dispatching and the main thread
\* registering; both are threads the scheduler keeps running, and a thread
\* that holds the registry's lock blocks on nothing before it releases it
InitReg == RLInit /\ IPCIdle /\ AMInit /\ RTIdle /\ MonIdle /\ RegInit /\ LlmIdle /\ LifeIdle

SpecReg ==
    /\ InitReg
    /\ [][RegNext]_vars
    /\ WF_vars(DispatchStep)
    /\ WF_vars(MainRegisterStore)

SpecMon == InitMon /\ [][MonNext]_vars


(***************************************************************************)
(* C1: whatever the interleaving of the threads inside allow(), the calls  *)
(* admitted inside one window [window_start, window_start + 1s) number at  *)
(* most max_per_second.  A call is inside the window when it read the      *)
(* clock at or after window_start and returned before window_start + 1s.   *)
(***************************************************************************)
RECURSIVE Total(_, _)
Total(h, ps) ==
    IF ps = {} THEN 0
    ELSE LET p == CHOOSE q \in ps : TRUE IN h[p] + Total(h, ps \ {p})

AdmittedIn(ws) ==
    Total(admits, {p \in DOMAIN admits : p[1] >= ws /\ p[2] < ws + WindowMs})

C1_WindowBound ==
    \A ws \in windows : AdmittedIn(ws) <= max_per_second_

(***************************************************************************)
(* C2: a connection the rate limiter denied was answered RATE_LIMITED,     *)
(* once, and closed; its request was never parsed, no handler was invoked  *)
(* for it, and the accept thread is not in the parse, dispatch, handler,   *)
(* send or close step of it.                                               *)
(***************************************************************************)
C2_DeniedNotParsed ==
    cur.denied =>
        /\ cur.resp = "RATE_LIMITED"
        /\ cur.sends = 1
        /\ cur.closed
        /\ ~cur.parsed
        /\ ~cur.invoked
        /\ acc_pc \notin {"parse", "dispatch", "handler", "send", "close"}

\* a connection was denied after two others were admitted in the window
C2_Witness ==
    /\ cur.denied
    /\ cur.closed
    /\ cur.req \in handlers_
    /\ connections_served_ = max_per_second_ + 1

(***************************************************************************)
(* C3: when a stop() that began while the accept thread was handling a     *)
(* connection has returned, active_connections_ is 0, the accept thread    *)
(* has exited (no handler runs), the connection is closed and, if the      *)
(* client had sent a request, its one response was sent; the descriptor is *)
(* closed and the socket file is removed.                                  *)
(***************************************************************************)
C3_StopDrains ==
    (main_pc = "stopped" /\ stop_inflight) =>
        /\ active_connections_ = 0
        /\ acc_pc = "exited"
        /\ cur.closed
        /\ cur.req # "empty" => cur.sends = 1
        /\ server_fd_ = -1
        /\ ~sock_file

\* stop() began while a handler was to run, and returned after its response
C3_Witness ==
    /\ main_pc = "stopped"
    /\ stop_inflight
    /\ cur.invoked
    /\ cur.resp = "OK"
    /\ cur.sends = 1

(***************************************************************************)
(* Steps of the alert manager, as the claims below speak of them           *)
(***************************************************************************)
IdsOf(tbl) == {r.id : r \in tbl}

\* this step is create() called with the triple in
CreateStep(in) == \E id1, id2 \in Ids : Create(in[1], in[2], in[3], id1, id2)

\* the key of the triple was admitted, and no more than the window ago
InWindow(in) ==
    LET k == AlertHash(in[1], in[2], in[3])
    IN  k \in DOMAIN issued /\ ~(wall_now - issued[k].at > Minutes(DedupWindow))

C5_ReadmitAfterWindow ==
    [][/\ \A in \in CreateInputs :
            LET k == AlertHash(in[1], in[2], in[3]) IN
            (last'.op = "create" /\ CreateStep(in)) =>
               /\ \A x \in DOMAIN recent_alerts_' :
                     ~(wall_now - recent_alerts_'[x] > Minutes(DedupWindow))
               /\ InWindow(in) =>
                     /\ k \in DOMAIN recent_alerts_
                     /\ recent_alerts_'[k] = recent_alerts_[k]
               /\ ~InWindow(in) =>
                     /\ last'.id \in Ids \ IdsOf(rows)
                     /\ rows' = rows \cup
                          {RowOf(NewAlert(last'.id, in[1], in[2], in[3], wall_now))}
                     /\ StoreCountActive(rows') = StoreCountActive(rows) + 1
                     /\ recent_alerts_'[k] = wall_now
       /\ recent_alerts_' # recent_alerts_ => last'.op = "create"]_vars

\* a key admitted before was admitted again, and both alerts are active
C5_Witness ==
    /\ last.op = "create"
    /\ ~last.dup
    /\ StoreCountActive(rows) = 2
    /\ \E r1, r2 \in rows :
          /\ r1.id # r2.id
          /\ AlertHash(r1.severity, r1.type, r1.title)
               = AlertHash(r2.severity, r2.type, r2.title)
          /\ FromTimeT(r2.timestamp) - FromTimeT(r1.timestamp)
               > Minutes(DedupWindow)

UniqueIds(tbl) == \A r1, r2 \in tbl : r1.id = r2.id => r1 = r2

C8_FlagsHaveTimes ==
    \A a \in StoreGetAll(rows) :
        /\ a.acknowledged => a.acknowledged_at # Epoch
        /\ a.resolved => a.resolved_at # Epoch

\* an acknowledged and resolved alert next to one acknowledge_all() took
C8_Witness ==
    /\ last.op = "acknowledge_all"
    /\ last.ret = 1
    /\ \E a \in StoreGetAll(rows) : a.acknowledged /\ a.resolved
    /\ \E a \in StoreGetAll(rows) : a.acknowledged /\ ~a.resolved

C12_CleanupZeroRemovesResolved ==
    [][(last'.op = "cleanup_old" /\ CleanupOld(0)) =>
          rows' = {r \in rows : r.resolved = 0}]_vars

(***************************************************************************)
(* C13: insert(a) followed by get(a.id) returns exactly one alert, equal   *)
(* to a in every field.                                                    *)
(***************************************************************************)
C13_InsertGetRoundTrip ==
    rt_pc = "got" => rt_got = {rt_alert}

(***************************************************************************)
(* C14: acknowledge_all(), and the alerts.ack request with all:true,       *)
(* returns the number of alerts that were unacknowledged when it ran;      *)
(* afterwards get_active() is empty and count_active() is 0; with three    *)
(* active alerts the result is 3.                                          *)
(***************************************************************************)
C14_AckAllCountsActive ==
    [][(\/ last'.op = "acknowledge_all"
        \/ last'.op = "alerts.ack" /\ last'.resp = "acknowledged_count")
       => /\ last'.ret = Cardinality({r \in rows : r.acknowledged = 0})
          /\ StoreGetActive(rows') = {}
          /\ StoreCountActive(rows') = 0
          /\ \A r \in rows : \E q \in rows' : q.id = r.id /\ q.acknowledged = 1]_vars

C14_Witness ==
    /\ last.op = "alerts.ack"
    /\ last.resp = "acknowledged_count"
    /\ last.ret = 3
    /\ Cardinality(rows) = 3
    /\ \E r \in rows : r.resolved = 1

(***************************************************************************)
(* C15: in every reachable state of the store, get_active(),               *)
(* get_by_severity(s) and get_by_type(t) return exactly the stored alerts  *)
(* with acknowledged = false (of that severity or type); count_active()    *)
(* is the size of get_active(), count_by_severity(s) the size of           *)
(* get_by_severity(s), and the per-severity counts sum to count_active().  *)
(***************************************************************************)
RECURSIVE SumCountBySeverity(_, _)
SumCountBySeverity(tbl, sevs) ==
    IF sevs = {} THEN 0
    ELSE LET s == CHOOSE x \in sevs : TRUE
         IN  StoreCountBySeverity(tbl, s) + SumCountBySeverity(tbl, sevs \ {s})

C15_QueriesAgree ==
    LET all == StoreGetAll(rows) IN
    /\ StoreGetActive(rows) = {a \in all : ~a.acknowledged}
    /\ \A s \in Severities :
          /\ StoreGetBySeverity(rows, s) =
                 {a \in all : ~a.acknowledged /\ a.severity = s}
          /\ StoreCountBySeverity(rows, s) =
                 Cardinality(StoreGetBySeverity(rows, s))
    /\ \A t \in Types :
          StoreGetByType(rows, t) = {a \in all : ~a.acknowledged /\ a.type = t}
    /\ StoreCountActive(rows) = Cardinality(StoreGetActive(rows))
    /\ SumCountBySeverity(rows, Severities) = StoreCountActive(rows)

C15_Witness ==
    /\ last.op = "alerts.ack"
    /\ last.resp = "acknowledged"
    /\ StoreCountActive(rows) = 2
    /\ StoreCountBySeverity(rows, "WARNING") = 1
    /\ StoreCountBySeverity(rows, "CRITICAL") = 1
    /\ \E r \in rows : r.acknowledged = 0 /\ r.resolved = 1
    /\ Cardinality(StoreGetByType(rows, "DISK_USAGE")) = 1

(***************************************************************************)
(* C16: snapshot publication is atomic: while the worker loop and a        *)
(* force_check() caller publish snapshots in any interleaving, what        *)
(* get_snapshot() and force_check() return is one published snapshot (or   *)
(* the initial one) in all its fields, never a mix of two.                 *)
(***************************************************************************)
C16_SnapshotsWhole ==
    /\ health.seen \in published \cup {EmptySnapshot}
    /\ mon_pc["handler"] = "respond" =>
           health.snapshot \in published \cup {EmptySnapshot}

C16_Witness ==
    /\ mon_pc["handler"] = "respond"
    /\ health.forced
    /\ health.snapshot \in published
    /\ snapshot_mutex_ = "worker"
    /\ current_snapshot_ \notin published

(***************************************************************************)
(* C17: the health handler runs a sample pass exactly when the snapshot it *)
(* read carries the epoch timestamp; the answer to a health request on a   *)
(* fresh daemon has a timestamp that is not the epoch; a snapshot that is  *)
(* not epoch-stamped is answered without a pass.                           *)
(***************************************************************************)
C17_HealthForcesOnEpoch ==
    /\ health.forced => health.seen.timestamp = Epoch
    /\ health.answered =>
          /\ health.forced <=> (health.seen.timestamp = Epoch)
          /\ health.snapshot.timestamp # Epoch
          /\ ~health.forced => health.snapshot.timestamp = health.seen.timestamp

C17_Witness ==
    /\ health.answered
    /\ health.forced
    /\ health.seen = EmptySnapshot
    /\ health.snapshot.timestamp # Epoch
    /\ health.snapshot.memory_usage_percent > 0

(***************************************************************************)
(* C18: in each sample pass, for disk and for memory independently: a      *)
(* usage at or above the critical threshold requests exactly one CRITICAL  *)
(* alert and no WARNING; otherwise a usage at or above the warning         *)
(* threshold requests exactly one WARNING and no CRITICAL; otherwise       *)
(* neither is requested.                                                   *)
(***************************************************************************)
Requested(t, sev, ty) ==
    Cardinality({i \in DOMAIN checked[t].req : checked[t].req[i] = <<sev, ty>>})

ThresholdRule(t, ty, pct, warn, crit) ==
    /\ Requested(t, "CRITICAL", ty) = (IF pct >= crit THEN 1 ELSE 0)
    /\ Requested(t, "WARNING", ty) = (IF pct < crit /\ pct >= warn THEN 1 ELSE 0)

C18_ThresholdsRequestOne ==
    \A t \in MonThreads :
        /\ "disk" \in checked[t].stage =>
               ThresholdRule(t, "DISK_USAGE", checked[t].disk_pct,
                             disk_warn_threshold, disk_crit_threshold)
        /\ "disk" \notin checked[t].stage =>
               /\ Requested(t, "CRITICAL", "DISK_USAGE") = 0
               /\ Requested(t, "WARNING", "DISK_USAGE") = 0
        /\ "mem" \in checked[t].stage =>
               ThresholdRule(t, "MEMORY_USAGE", checked[t].mem_pct,
                             mem_warn_threshold, mem_crit_threshold)
        /\ "mem" \notin checked[t].stage =>
               /\ Requested(t, "CRITICAL", "MEMORY_USAGE") = 0
               /\ Requested(t, "WARNING", "MEMORY_USAGE") = 0

C18_Witness ==
    \E t \in MonThreads :
        /\ mon_pc[t] = "checked"
        /\ checked[t].disk_pct = disk_warn_threshold
        /\ checked[t].mem_pct = mem_crit_threshold
        /\ checked[t].req = << <<"WARNING", "DISK_USAGE">>,
                               <<"CRITICAL", "MEMORY_USAGE">> >>

(***************************************************************************)
(* C19: on a threshold breach the primary alert is created, with metadata  *)
(* ai_enhanced = pending, before any analysis thread is started; the pass  *)
(* goes on and returns whether or not analysis threads have run, and the   *)
(* primary alert is in the store when the pass returns.                    *)
(***************************************************************************)
PrimaryVisible(sev, ty) ==
    \E a \in mgr_alerts :
        /\ a.severity = sev
        /\ a.type = ty
        /\ a.metadata.ai_enhanced = "pending"

C19_PrimaryFirstPassNeverWaits ==
    /\ \A task \in tasks :
          \E a \in mgr_alerts :
              /\ a.id = task.alert_id
              /\ a.severity = task.severity
              /\ a.type = task.type
              /\ a.metadata.ai_enhanced = "pending"
    /\ \A t \in MonThreads :
          /\ \A i \in DOMAIN checked[t].req :
                PrimaryVisible(checked[t].req[i][1], checked[t].req[i][2])
          /\ mon_pc[t] = "check_disk" => ENABLED CheckDisk(t)
          /\ mon_pc[t] = "check_mem" => ENABLED CheckMem(t)
          /\ mon_pc[t] = "check_security" => ENABLED CheckSecurity(t)

C19_Witness ==
    /\ mon_pc["worker"] = "checked"
    /\ checked["worker"].req = << <<"CRITICAL", "DISK_USAGE">> >>
    /\ PrimaryVisible("CRITICAL", "DISK_USAGE")
    /\ \E task \in tasks : task.type = "DISK_USAGE" /\ task.severity = "CRITICAL"
    /\ \A a \in mgr_alerts : a.type # "AI_ANALYSIS"

(***************************************************************************)
(* C20: a secondary alert (type AI_ANALYSIS, severity INFO, metadata       *)
(* parent_alert_id = the primary's ID) is created only after the analysis  *)
(* thread's infer_sync call returned success; a failed inference creates   *)
(* no secondary alert.                                                     *)
(***************************************************************************)
C20_SecondaryOnlyAfterInference ==
    \A a \in mgr_alerts : a.type = "AI_ANALYSIS" => infer_result = "success"

(***************************************************************************)
(* C28: cleanup_before(cutoff) deletes exactly the alerts with resolved =  *)
(* true and a timestamp strictly before cutoff, returns the number it      *)
(* deleted and leaves every other alert as it was.                         *)
(***************************************************************************)
C28_CleanupBeforeExact ==
    [][\A h \in MaxAges :
          (last'.op = "cleanup_old" /\ CleanupOld(h)) =>
              LET cutoff == wall_now - Minutes(h * MinutesPerHour)
                  old == {r \in rows : /\ r.resolved = 1
                                       /\ FromTimeT(r.timestamp) < cutoff}
              IN  /\ rows' = rows \ old
                  /\ last'.ret = Cardinality(old)]_vars

(***************************************************************************)
(* C27: count_ is always between 0 and max_per_second.  A call to allow()  *)
(* that returns false leaves count_ as it was; a call returns true only in *)
(* the step of its successful compare-and-swap, which finds count_ below   *)
(* max_per_second and raises it by exactly 1.  No other step raises count_.*)
(***************************************************************************)
C27_CountWithinLimit ==
    /\ [](0 <= count_ /\ count_ <= max_per_second_)
    /\ [][/\ \A t \in Threads :
                (rl_pc[t] # "idle" /\ rl_pc'[t] = "idle") =>
                    IF rl_result'[t] = TRUE
                    THEN /\ rl_pc[t] = "count_cas"
                         /\ count_ = current[t]
                         /\ count_ < max_per_second_
                         /\ count_' = count_ + 1
                    ELSE /\ rl_result'[t] = FALSE
                         /\ count_' = count_
          /\ count_' > count_ =>
                \E t \in Threads : /\ rl_pc[t] = "count_cas"
                                   /\ rl_pc'[t] = "idle"
                                   /\ rl_result'[t] = TRUE]_vars

\* calls were admitted up to the limit, and a call that loaded count_ at
\* the limit has returned (false) with count_ still at the limit
C27_Witness ==
    /\ count_ = max_per_second_
    /\ admits # <<>>
    /\ \E t \in Threads : /\ rl_pc[t] = "idle"
                          /\ current[t] = max_per_second_
                          /\ rl_result[t] = FALSE

(***************************************************************************)
(* C26: a server whose socket path is longer than sizeof(sun_path) - 1     *)
(* never starts: start() returns false, and at every moment no socket is   *)
(* bound (server_fd_ is -1, no socket file exists once start() has run),   *)
(* running_ is false and no accept thread exists.                          *)
(***************************************************************************)
C26_LongPathNeverStarts ==
    socket_path_len > SunPathSize - 1 =>
        /\ main_pc # "start_ok"
        /\ server_fd_ = -1
        /\ ~running_
        /\ acc_pc = "none"
        /\ backlog = <<>>
        /\ main_pc = "start_failed" => ~sock_file

\* start() has returned false for a path of sizeof(sun_path) bytes
C26_Witness ==
    /\ socket_path_len = SunPathSize
    /\ main_pc = "start_failed"

(***************************************************************************)
(* C22: a request that does not parse is answered PARSE_ERROR, a request   *)
(* for a method without a registered handler METHOD_NOT_FOUND, a request   *)
(* whose handler throws INTERNAL_ERROR with the text of the exception; the *)
(* response built is the one sent, the accept thread then closes the       *)
(* connection and is back at the top of its loop, and it leaves the loop   *)
(* only when running_ is false.                                            *)
(***************************************************************************)
C22_ErrorsAnsweredLoopGoesOn ==
    /\ [](acc_pc = "exited" => ~running_)
    /\ [][/\ (acc_pc = "parse" /\ acc_pc' # "parse" /\ cur.req = "garbage") =>
                /\ cur'.resp = "PARSE_ERROR"
                /\ acc_pc' = "send"
          /\ (acc_pc = "dispatch" /\ acc_pc' # "dispatch"
                /\ cur.req \notin handlers_) =>
                /\ cur'.resp = "METHOD_NOT_FOUND"
                /\ acc_pc' = "send"
          /\ (acc_pc = "handler" /\ acc_pc' # "handler" /\ cur.req = "boom") =>
                /\ cur'.resp = "INTERNAL_ERROR"
                /\ cur'.text = <<What>>
                /\ acc_pc' = "send"
          /\ (acc_pc = "send" /\ acc_pc' # "send") =>
                /\ cur' = [cur EXCEPT !.sends = @ + 1]
                /\ acc_pc' = "close"
          /\ (acc_pc = "close" /\ acc_pc' # "close") => acc_pc' = "top"
          /\ (acc_pc = "top" /\ acc_pc' = "exited") => ~running_]_vars

\* a second or third connection, whose handler threw, was answered
\* INTERNAL_ERROR with the exception's text and closed, and the accept thread
\* of the running server is back at the top of its loop
C22_Witness ==
    /\ running_
    /\ acc_pc = "top"
    /\ connections_served_ >= 2
    /\ cur.closed
    /\ cur.sends = 1
    /\ cur.resp = "INTERNAL_ERROR"
    /\ cur.text = <<What>>

(***************************************************************************)
(* C23: every accepted connection whose recv() returned data is sent       *)
(* exactly one response and is then closed, whether it was rate-limited,   *)
(* did not parse, named an unknown method or had its handler throw or      *)
(* return.  The request is read before the handler runs, the handler has   *)
(* finished before the response is sent, and the response is sent before   *)
(* the connection is closed.                                               *)
(***************************************************************************)
C23_OneResponseThenClose ==
    /\ [](/\ cur.sends <= 1
          /\ (cur.closed /\ cur.req \notin {"none", "empty"}) =>
                (cur.sends = 1 /\ cur.resp # "none")
          /\ (acc_pc \notin HandlingPcs /\ cur.req # "none") => cur.closed
          /\ cur.invoked => (cur.parsed /\ ~cur.denied)
          /\ acc_pc = "handler" => (cur.invoked /\ cur.sends = 0)
          /\ (cur.sends = 1 /\ cur.invoked) =>
                (acc_pc # "handler" /\ cur.resp \in {"OK", "INTERNAL_ERROR"})
          /\ (cur.sends = 1 /\ ~cur.denied) =>
                cur.resp \in {"PARSE_ERROR", "METHOD_NOT_FOUND",
                              "INTERNAL_ERROR", "OK"})
    /\ (acc_pc = "limit") ~> (cur.closed /\ cur.sends = 1)

\* the last of the connections, whose handler returned, has been answered
\* once and closed
C23_Witness ==
    /\ cur.closed
    /\ cur.sends = 1
    /\ cur.resp = "OK"
    /\ cur.invoked
    /\ connections_served_ = MaxConns

(***************************************************************************)
(* C24: the response sent on a connection whose request carries an id      *)
(* carries the same id, whether it reports success or an error.            *)
(***************************************************************************)
C24_ResponseEchoesId ==
    (cur.sends >= 1 /\ cur.id # NoId) => cur.resp_id = cur.id

C21_DisabledNoAnalysis ==
    ~enable_ai_alerts =>
        /\ tasks = {}
        /\ \A a \in mgr_alerts : a.type # "AI_ANALYSIS"

(***************************************************************************)
(* C29: with the package monitor enabled every pass takes its own value of *)
(* the pass counter, by one atomic increment; the package check runs in    *)
(* exactly the passes whose value is a multiple of 5; of any 5 consecutive *)
(* values exactly one runs it; and no two passes, concurrent or not, run   *)
(* it for the same value.                                                  *)
(***************************************************************************)
AptValues == {r.value : r \in apt_log}

C29_PackageCheckEveryFifth ==
    /\ [](/\ \A r \in apt_log : r.check_updates <=> (r.value % 5 = 0)
          /\ \A r1, r2 \in apt_log : r1.value = r2.value => r1 = r2
          /\ AptValues = 0 .. (apt_counter_ - 1)
          /\ \A v \in AptValues :
                (v .. (v + 4)) \subseteq AptValues =>
                    Cardinality({r \in apt_log : /\ r.value \in v .. (v + 4)
                                                 /\ r.check_updates}) = 1)
    /\ [][(enable_apt_monitor /\ mon_clock' # mon_clock) =>
             /\ apt_counter_' = apt_counter_ + 1
             /\ apt_counter_ \notin AptValues
             /\ apt_log' \ apt_log =
                   {[value |-> apt_counter_,
                     check_updates |-> (apt_counter_ % 5 = 0)]}]_vars

\* the passes of the worker and the forced pass of the health handler have
\* taken the values 0 to 10, and the check ran for 0, 5 and 10
C29_Witness ==
    /\ enable_apt_monitor
    /\ health.forced
    /\ apt_counter_ = 11
    /\ {r.value : r \in {x \in apt_log : x.check_updates}} = {0, 5, 10}

(***************************************************************************)
(* C30: the worker begins one pass at once when it starts, before any      *)
(* sleep; while the monitor is running every trigger_check() is eventually *)
(* followed by a pass that begins after the call; and a pass of the loop   *)
(* that no trigger_check() asked for begins only when check_interval has   *)
(* elapsed since the previous pass of the loop.                            *)
(***************************************************************************)
C30_PassesOnStartTriggerAndInterval ==
    /\ [](mon_clock = Epoch =>
             (loop_now = 0 /\ mon_pc["worker"] = "run_checks"))
    /\ <>(mon_clock > Epoch)
    /\ (mon_running_ /\ trig_clock = mon_clock)
          ~> (mon_clock > trig_clock \/ ~mon_running_)
    /\ []((mon_pc["worker"] = "clear"
             /\ (trig_clock = NoTrigger \/ ~check_requested_)) =>
                now_loc - last_check >= check_interval_)

\* a pass asked for by trigger_check() has begun a second after the initial
\* pass, and the monitor is still running
C30_Witness ==
    /\ mon_running_
    /\ trig_clock # NoTrigger
    /\ mon_clock > trig_clock
    /\ mon_pc["worker"] = "publish"
    /\ now_loc - last_check < check_interval_
    /\ ~check_requested_

(***************************************************************************)
(* C33: update(a) changes only the acknowledged, resolved,                 *)
(* acknowledged_at, resolved_at and resolution columns of the row whose id *)
(* is a.id: that row keeps its id, timestamp, severity, type, title,       *)
(* message and metadata, every other row is unchanged, and no row appears  *)
(* or disappears.                                                          *)
(***************************************************************************)
SameFixedColumns(r1, r2) ==
    /\ r1.id = r2.id
    /\ r1.timestamp = r2.timestamp
    /\ r1.severity = r2.severity
    /\ r1.type = r2.type
    /\ r1.title = r2.title
    /\ r1.message = r2.message
    /\ r1.metadata = r2.metadata

C33_UpdateFrame ==
    [][\A a \in RTUpdates :
          RTUpdateWith(a) =>
              /\ {r \in rt_rows' : r.id # a.id} = {r \in rt_rows : r.id # a.id}
              /\ Cardinality(rt_rows') = Cardinality(rt_rows)
              /\ \A r \in rt_rows :
                    r.id = a.id =>
                        \E r2 \in rt_rows' :
                            /\ SameFixedColumns(r, r2)
                            /\ r2.acknowledged = Bit(a.acknowledged)
                            /\ r2.resolved = Bit(a.resolved)
                            /\ r2.resolution = a.resolution]_vars

\* update() has rewritten the flags and the resolution of the inserted
\* alert, in a table that also holds another alert
C33_Witness ==
    /\ rt_pc = "updated"
    /\ \E r \in rt_rows : r.id = "a2"
    /\ \E r \in rt_rows : /\ r.id = "a1"
                          /\ r.resolution = "done"
                          /\ r.resolved = 1
                          /\ r.title = "High disk usage"

(***************************************************************************)
(* C36: active_connections_ is 0 or 1 in every state.  handle_client()     *)
(* raises it by one on entry and lowers it by one, once, in the step that  *)
(* closes the connection, on every way out (empty read, denial by the rate *)
(* limiter, parse failure, handler return, handler exception); it is 1     *)
(* exactly while the accept thread is inside handle_client() past the      *)
(* increment, so at most one handler runs at a time.                       *)
(***************************************************************************)
C36_OneInFlight ==
    /\ [](/\ active_connections_ \in {0, 1}
          /\ active_connections_ = 1 <=> acc_pc \in (HandlingPcs \ {"enter"})
          /\ acc_pc = "handler" => (active_connections_ = 1 /\ ~cur.closed))
    /\ [][/\ active_connections_' > active_connections_ =>
                /\ acc_pc = "enter"
                /\ active_connections_' = active_connections_ + 1
          /\ (cur'.closed /\ ~cur.closed) <=>
                active_connections_' = active_connections_ - 1
          /\ active_connections_' < active_connections_ => acc_pc' = "top"]_vars

\* the third connection delivered no data and was closed, after two others
\* were served; nothing is in flight
C36_Witness ==
    /\ connections_served_ = MaxConns
    /\ cur.req = "empty"
    /\ cur.closed
    /\ active_connections_ = 0

(***************************************************************************)
(* C35: the rate limiter is asked after a read that returned data and      *)
(* before the request is parsed.  A connection that delivers no data never *)
(* reaches the limiter, leaves count_ as it is and is sent nothing; a      *)
(* request that does not parse takes quota as any other request does, and  *)
(* when the limiter denies it the answer is RATE_LIMITED, PARSE_ERROR      *)
(* being sent only to a request the limiter admitted.                      *)
(***************************************************************************)
C35_LimitAfterReadBeforeParse ==
    /\ [](/\ cur.req = "empty" =>
                /\ acc_pc \notin {"limit", "parse", "dispatch", "handler",
                                  "send"}
                /\ cur.sends = 0
                /\ cur.resp = "none"
                /\ ~cur.denied
          /\ acc_pc \in {"parse", "dispatch", "handler", "send"} =>
                (~cur.denied /\ count_ >= 1)
          /\ (cur.req = "garbage" /\ cur.denied) =>
                (cur.resp = "RATE_LIMITED" /\ ~cur.parsed)
          /\ cur.resp = "PARSE_ERROR" => (cur.req = "garbage" /\ ~cur.denied))
    /\ [][/\ count_' # count_ => (acc_pc = "limit" /\ cur.req # "empty")
          /\ (acc_pc = "limit" /\ acc_pc' # "limit") =>
                \E cas_ok \in BOOLEAN :
                    LET a == AllowSeq(steady_now, window_start_rep_, count_,
                                      cas_ok)
                    IN  /\ count_' = a.count
                        /\ a.ok => (acc_pc' = "parse" /\ cur' = cur
                                      /\ count_' >= 1)
                        /\ ~a.ok => (cur'.denied /\ count_' = count_
                                       /\ cur'.resp = "RATE_LIMITED")]_vars

\* a request that does not parse was denied by the limiter, answered
\* RATE_LIMITED and closed
C35_Witness ==
    /\ cur.req = "garbage"
    /\ cur.denied
    /\ cur.resp = "RATE_LIMITED"
    /\ cur.sends = 1
    /\ cur.closed

(***************************************************************************)
(* C34: the quota replenishes.  A call of allow() that reads the clock at  *)
(* least one second after window_start_rep_, while no other call is under  *)
(* way, returns true whatever count_ the previous window had reached.      *)
(* The state below is the end of such a call: MaxCalls calls were made,    *)
(* all but this one were admitted and returned before the first second was *)
(* over, so that the window still starts at 0 and this call, whose clock   *)
(* reading is a second or more later, ran alone.                           *)
(***************************************************************************)
AdmittedBefore(ms) ==
    LET early == {p \in DOMAIN admits : p[2] < ms}
        RECURSIVE Sum(_)
        Sum(S) == IF S = {} THEN 0
                  ELSE LET p == CHOOSE q \in S : TRUE
                       IN  admits[p] + Sum(S \ {p})
    IN  Sum(early)

LoneLateCallEnded(t) ==
    /\ rl_calls = MaxCalls
    /\ \A u \in Threads : rl_pc[u] = "idle"
    /\ now_rep[t] >= WindowMs
    /\ AdmittedBefore(WindowMs) = MaxCalls - 1

C34_LoneLateCallAdmitted ==
    \A t \in Threads :
        LoneLateCallEnded(t) => (rl_result[t] = TRUE /\ window_start_rep_ = now_rep[t])

(***************************************************************************)
(* C31: dispatch() copies the handler under the shared lock of the         *)
(* registry and releases the lock before it invokes the copy: the accept   *)
(* thread never holds the lock while a handler runs, a handler that calls  *)
(* register_handler() gets the exclusive lock and returns, and a dispatch  *)
(* that looks a method up finds the handler of the last register_handler() *)
(* call that returned for that method.                                     *)
(***************************************************************************)
C31_HandlerRunsUnlocked ==
    /\ [](/\ dsp_pc \in {"invoke", "h_lock"} =>
                /\ "acc" \notin handlers_mutex_.shared
                /\ handlers_mutex_.excl # "acc"
          /\ dsp_pc = "unlock" =>
                /\ "acc" \in handlers_mutex_.shared
                /\ handler_loc = registered[dsp_req])
    /\ [][(dsp_pc = "h_store" /\ dsp_pc' = "idle") =>
              /\ handler_of'[dsp_req] = Replacement
              /\ handlers_mutex_' = FreeMutex]_vars
    /\ (dsp_pc = "h_lock") ~> (dsp_pc = "idle")

\* "h1" was invoked for a method and re-registered it from inside the
\* dispatch; the next dispatch of the method invoked the replacement
C31_Witness ==
    /\ dsp_pc = "idle"
    /\ \E i \in 1..Len(invoked_log) - 1 :
          /\ invoked_log[i] = <<"ping", "h1">>
          /\ invoked_log[i + 1] = <<"ping", Replacement>>

(***************************************************************************)
(* C39: a non-empty ID that create() returns names an alert that is in the *)
(* store when create() returns, also when the create() is deduplicated     *)
(* after the alert its key was admitted with was dismissed or cleaned up.  *)
(***************************************************************************)
StoredIds == {r.id : r \in rows}

C37_PassReadsOneSnapshot ==
    \A t \in MonThreads :
        {"disk", "mem"} \subseteq checked[t].stage =>
            \E snap \in published :
                /\ snap.disk_usage_percent = checked[t].disk_pct
                /\ snap.memory_usage_percent = checked[t].mem_pct

(***************************************************************************)
(* C40: each primary alert has at most one AI_ANALYSIS alert whose         *)
(* parent_alert_id is its ID, however many passes find the breach while    *)
(* the engine is loaded and however late the detached threads run.         *)
(***************************************************************************)
SecondariesOf(id) ==
    {r \in rows : r.type = "AI_ANALYSIS" /\ r.metadata = ParentMetadata(id)}

C38_LlmFieldsFromOneCall ==
    \A s \in llm_published : s = InitialLlm \/ s \in llm_calls

(***************************************************************************)
(* C32: no analysis thread uses the AlertManager after its destruction:    *)
(* the manager lives as long as a started thread has not finished its      *)
(* create() call, also when the SystemMonitor and the handlers have        *)
(* released it.                                                            *)
(***************************************************************************)
C32_NoUseAfterDestroy == dangling_use = {}

=============================================================================
